---- MODULE Spec2Model ----
(***************************************************************************)
(* zen-temple: the component validator (src/src/zen_temple/validator.py).  *)
(*                                                                         *)
(* A component text is a string.  The six rules of ComponentValidator are  *)
(* translated character by character: substring tests (Python's `in`),     *)
(* str.lower, and the regular expressions of the rules, matched by a small *)
(* backtracking matcher with Python's preference order (greedy classes try *)
(* the longest run first, the lazy `[\s\S]*?` the shortest).               *)
(*                                                                         *)
(* ValidationResult objects live on a heap: `results` holds the objects in *)
(* allocation order and `lists` the list objects their `errors` and        *)
(* `warnings` fields refer to, so that aliasing between two results is     *)
(* expressible.                                                            *)
(*                                                                         *)
(* The message texts are ASCII renderings of the source's Japanese string  *)
(* literals; the interpolated parts (pattern, x-data value, path) are kept.*)
(***************************************************************************)
EXTENDS Integers, Sequences, FiniteSets, Bags, TLC

VARIABLES
    lists,      \* heap of list objects: lists[id] is a sequence of messages
    results,    \* heap of ValidationResult objects, in allocation order
    call,       \* the validation call in progress or last finished
    pc,         \* "idle" | "rules" | "returned" | "raised"
    todo,       \* the rules `for rule in self.rules` has yet to start
    pending,    \* add_error / add_warning calls the running rule has yet to make
    ret,        \* heap index of the result the last call returned (0: none)
    log,        \* the calls that returned, oldest first, each with what it returned
    procs,      \* concurrent battery only: one entry per rule process
    files,      \* the file system under project_root: path |-> [kind, text]
    calc        \* the CalculatorLogic object, and the outcome of its last call

vars == <<lists, results, call, pc, todo, pending, ret, log, procs, files, calc>>

----------------------------------------------------------------------------
\* Bounds of the model.

\* fragments of the corpus concatenated into one component text
MaxFrags == 2
\* validation calls made on one ComponentValidator
MaxCalls == 2
\* method calls made on one CalculatorLogic
MaxKeys == 6

----------------------------------------------------------------------------
\* Strings.

At(s, i) == SubSeq(s, i, i)

Chars(s) == {At(s, i) : i \in 1..Len(s)}

\* a literal at position i of s ("startswith at offset")
StartsAt(s, i, lit) ==
    /\ i >= 1
    /\ i + Len(lit) - 1 <= Len(s)
    /\ SubSeq(s, i, i + Len(lit) - 1) = lit

\* Python's `needle in s`
Contains(s, needle) == \E i \in 1..(Len(s) - Len(needle) + 1) : StartsAt(s, i, needle)

UpperLetters == "ABCDEFGHIJKLMNOPQRSTUVWXYZ"
LowerLetters == "abcdefghijklmnopqrstuvwxyz"
Digits == "0123456789"

LowerOf == [c \in Chars(UpperLetters) |->
               At(LowerLetters, CHOOSE k \in 1..Len(UpperLetters) : At(UpperLetters, k) = c)]

LowerChar(c) == IF c \in DOMAIN LowerOf THEN LowerOf[c] ELSE c

\* str.lower() over the ASCII alphabet of the corpus, character by character
\* (the string is halved rather than walked, to keep the evaluation shallow)
RECURSIVE Lower(_)
Lower(s) ==
    IF Len(s) = 0 THEN ""
    ELSE IF Len(s) = 1 THEN LowerChar(s)
    ELSE LET h == Len(s) \div 2
         IN  Lower(SubSeq(s, 1, h)) \o Lower(SubSeq(s, h + 1, Len(s)))

Min(S) == CHOOSE x \in S : \A y \in S : x <= y
Max(S) == CHOOSE x \in S : \A y \in S : x >= y

SpaceChars == {" ", "\t", "\n", "\r", "\f"}
QuoteChars == {"\"", "'"}
WordChars == Chars(UpperLetters) \cup Chars(LowerLetters) \cup Chars(Digits) \cup {"_"}

\* str.strip(): leading and trailing whitespace removed
RECURSIVE LStrip(_)
LStrip(s) == IF s # "" /\ Head(s) \in SpaceChars THEN LStrip(Tail(s)) ELSE s

RECURSIVE RStrip(_)
RStrip(s) ==
    IF s # "" /\ At(s, Len(s)) \in SpaceChars THEN RStrip(SubSeq(s, 1, Len(s) - 1)) ELSE s

Strip(s) == RStrip(LStrip(s))

----------------------------------------------------------------------------
\* Regular expressions (module re).  A pattern is a sequence of elements:
\*   Lit(v)    the literal v
\*   One(c)    one character of class c
\*   Star(c)   c*   greedy
\*   Plus(c)   c+   greedy
\*   LazyAny   [\s\S]*?
\*   NotAhead(p)  (?!p)

Lit(v) == [t |-> "lit", v |-> v]
One(c) == [t |-> "one", v |-> c]
Star(c) == [t |-> "star", v |-> c]
Plus(c) == [t |-> "plus", v |-> c]
LazyAny == [t |-> "lazy", v |-> "any"]
NotAhead(p) == [t |-> "not", v |-> p]

InClass(c, cls) ==
    CASE cls = "space" -> c \in SpaceChars           \* \s
      [] cls = "word" -> c \in WordChars             \* \w
      [] cls = "notgt" -> c # ">"                    \* [^>]
      [] cls = "quote" -> c \in QuoteChars           \* ["\']
      [] cls = "notquote" -> c \notin QuoteChars     \* [^"\']
      [] cls = "any" -> TRUE                         \* [\s\S]

\* number of consecutive characters of class cls from position i on
Run(s, i, cls) ==
    LET stops == {j \in i..Len(s) : ~InClass(At(s, j), cls)}
    IN  IF stops = {} THEN Len(s) - i + 1 ELSE Min(stops) - i

\* MatchAt(s, i, pat, k): elements k.. of pat matched at position i of s;
\* the position after the match, or 0 when there is none.
RECURSIVE MatchAt(_, _, _, _), Greedy(_, _, _, _, _, _), Lazy(_, _, _, _)
MatchAt(s, i, pat, k) ==
    IF k > Len(pat) THEN i
    ELSE LET e == pat[k] IN
        CASE e.t = "lit" ->
                IF StartsAt(s, i, e.v) THEN MatchAt(s, i + Len(e.v), pat, k + 1) ELSE 0
          [] e.t = "one" ->
                IF i <= Len(s) /\ InClass(At(s, i), e.v)
                THEN MatchAt(s, i + 1, pat, k + 1) ELSE 0
          [] e.t = "star" -> Greedy(s, i, Run(s, i, e.v), 0, pat, k + 1)
          [] e.t = "plus" -> Greedy(s, i, Run(s, i, e.v), 1, pat, k + 1)
          [] e.t = "lazy" -> Lazy(s, i, pat, k + 1)
          [] e.t = "not" ->
                IF MatchAt(s, i, e.v, 1) # 0 THEN 0 ELSE MatchAt(s, i, pat, k + 1)

\* a greedy repetition over a run of n characters: the rest of the pattern is
\* matched after as many of them as possible, at least min
Greedy(s, i, n, min, pat, k) ==
    LET taken == {m \in min..n : MatchAt(s, i + m, pat, k) # 0}
    IN  IF taken = {} THEN 0 ELSE MatchAt(s, i + Max(taken), pat, k)

\* a lazy repetition of any character: the rest of the pattern is matched
\* after as few characters as possible
Lazy(s, i, pat, k) ==
    LET taken == {m \in 0..(Len(s) + 1 - i) : MatchAt(s, i + m, pat, k) # 0}
    IN  IF taken = {} THEN 0 ELSE MatchAt(s, i + Min(taken), pat, k)

\* re.search from position `from`: <<start, end>> of the leftmost match
\* (end is the position after it), or <<0, 0>>
SearchFrom(s, pat, from) ==
    LET starts == {i \in from..(Len(s) + 1) : MatchAt(s, i, pat, 1) # 0}
    IN  IF starts = {} THEN <<0, 0>>
        ELSE <<Min(starts), MatchAt(s, Min(starts), pat, 1)>>

\* re.search(pat, s) is not None
Search(s, pat) == SearchFrom(s, pat, 1)[1] # 0

\* re.search(pat, s, re.IGNORECASE) for a pattern with lower-case literals
SearchIgnoreCase(s, pat) == Search(Lower(s), pat)

\* re.finditer: the spans of the non-overlapping matches, left to right.
\* A match is never empty here (every pattern of the validator holds a literal).
RECURSIVE FindIter(_, _, _)
FindIter(s, pat, from) ==
    LET m == SearchFrom(s, pat, from) IN
    IF m[1] = 0 THEN <<>> ELSE <<m>> \o FindIter(s, pat, m[2])

----------------------------------------------------------------------------
\* The calls a rule makes on the result: add_error(msg) or add_warning(msg).

Error(msg) == [kind |-> "error", msg |-> msg]
Warning(msg) == [kind |-> "warning", msg |-> msg]

MsgNotFound(path) == "component file not found: " \o path
MsgInlineScript == "inline script detected; move the logic into an Alpine.js x-data function"
MsgInlineHandler(pattern) ==
    "inline event handler detected (" \o pattern \o "); use Alpine.js @click, @change"
MsgFullSwap == "hx-swap='outerHTML' used; make sure the server returns an HTML fragment"
MsgMalformedState(data) ==
    "x-data='" \o data \o "' must be a function call or an object literal"
MsgInlineObject == "inline object in x-data; use class-based state: x-data=\"new ComponentState()\""
MsgNoDirectives == "no Alpine.js directives found; consider Alpine.js for reactive behaviour"
MsgFullDocument == "component contains a full HTML document; split it into reusable fragments"
MsgNoMacro == "component has no {% macro %} wrapper; wrap it in {% macro component_name(args) %}"
MsgMutation == "destructive operation on server state (push/splice/pop) detected"

\* r"<script(?![^>]*src=)[^>]*>[\s\S]*?</\s*script[^>]*>"
script_pattern ==
    << Lit("<script"), NotAhead(<<Star("notgt"), Lit("src=")>>), Star("notgt"), Lit(">"),
       LazyAny, Lit("</"), Star("space"), Lit("script"), Star("notgt"), Lit(">") >>

\* the four handler patterns: the source text of each and its elements
inline_handlers ==
    << [src |-> "onclick\\s*=", pat |-> <<Lit("onclick"), Star("space"), Lit("=")>>],
       [src |-> "onload\\s*=", pat |-> <<Lit("onload"), Star("space"), Lit("=")>>],
       [src |-> "onchange\\s*=", pat |-> <<Lit("onchange"), Star("space"), Lit("=")>>],
       [src |-> "onsubmit\\s*=", pat |-> <<Lit("onsubmit"), Star("space"), Lit("=")>> ] >>

\* the inline-script test without its `"class " not in script_content`
UnsanctionedNoClass(script_content) ==
    /\ ~Contains(script_content, "x-data")
    /\ ~Contains(Lower(script_content), "htmx")

\* the inline-script test of one match of script_pattern
Unsanctioned(script_content) ==
    /\ ~Contains(script_content, "x-data")
    /\ ~Contains(Lower(script_content), "htmx")
    /\ ~Contains(script_content, "class ")

\* _check_inline_scripts with re.finditer in the handler loop: an error for
\* every occurrence of a handler
CheckInlineScriptsPerOccurrence(content, result) ==
    LET matches == FindIter(Lower(content), script_pattern, 1)
        group0(m) == SubSeq(content, m[1], m[2] - 1)
        Bad(m) == Unsanctioned(group0(m))
        scripts == [i \in 1..Len(SelectSeq(matches, Bad)) |-> Error(MsgInlineScript)]
        E(k) == [i \in 1..Len(FindIter(Lower(content), inline_handlers[k].pat, 1)) |->
                    Error(MsgInlineHandler(inline_handlers[k].src))]
    IN  scripts \o E(1) \o E(2) \o E(3) \o E(4)

check_inline_scripts(content, result) ==
    LET matches == FindIter(Lower(content), script_pattern, 1)     \* re.IGNORECASE
        group0(m) == SubSeq(content, m[1], m[2] - 1)
        Bad(m) == Unsanctioned(group0(m))
        scripts == [i \in 1..Len(SelectSeq(matches, Bad)) |-> Error(MsgInlineScript)]
        Hit(h) == SearchIgnoreCase(content, h.pat)
        handlers == LET hit == SelectSeq(inline_handlers, Hit)
                    IN  [i \in 1..Len(hit) |-> Error(MsgInlineHandler(hit[i].src))]
    IN  scripts \o handlers

htmx_attrs ==
    << "hx-get", "hx-post", "hx-put", "hx-delete", "hx-patch",
       "hx-trigger", "hx-target", "hx-swap", "hx-select" >>

\* r'hx-swap\s*=\s*["\'][^"\']*["\']': a swap attribute of any value
SwapPatternAnyValue ==
    << Lit("hx-swap"), Star("space"), Lit("="), Star("space"),
       One("quote"), Star("notquote"), One("quote") >>

\* r'hx-swap\s*=\s*["\']outerHTML["\']'
swap_pattern ==
    << Lit("hx-swap"), Star("space"), Lit("="), Star("space"),
       One("quote"), Lit("outerHTML"), One("quote") >>

check_htmx_usage(content, result) ==
    LET has_htmx == \E i \in 1..Len(htmx_attrs) : Contains(content, htmx_attrs[i])
    IN  IF has_htmx /\ Contains(content, "hx-swap") /\ Search(content, swap_pattern)
        THEN <<Warning(MsgFullSwap)>>
        ELSE <<>>

\* r'x-data\s*=\s*["\']([^"\']*)["\']': the part before group 1, and the whole
x_data_prefix ==
    << Lit("x-data"), Star("space"), Lit("="), Star("space"), One("quote") >>
x_data_pattern == x_data_prefix \o << Star("notquote"), One("quote") >>

alpine_directives == << "x-show", "x-if", "x-for", "x-model", "x-text", "x-html" >>

\* the warnings of one occurrence with `not ("{" in data_content and "(" in
\* data_content)`: malformed unless both characters are there
XDataWarningsEitherMissing(data_content) ==
    (IF data_content # "" /\ ~(Contains(data_content, "{") /\ Contains(data_content, "("))
     THEN <<Warning(MsgMalformedState(data_content))>> ELSE <<>>)
    \o
    (IF /\ data_content # ""
        /\ StartsAt(Strip(data_content), 1, "{")
        /\ ~Contains(data_content, "new ")
     THEN <<Warning(MsgInlineObject)>> ELSE <<>>)

\* the warnings of one occurrence with `not "(" in data_content`: the brace
\* is not looked for
XDataWarningsParenOnly(data_content) ==
    (IF data_content # "" /\ ~Contains(data_content, "(")
     THEN <<Warning(MsgMalformedState(data_content))>> ELSE <<>>)
    \o
    (IF /\ data_content # ""
        /\ StartsAt(Strip(data_content), 1, "{")
        /\ ~Contains(data_content, "new ")
     THEN <<Warning(MsgInlineObject)>> ELSE <<>>)

\* the warnings of one occurrence with `"new " in data_content`, the `not` lost
XDataWarningsNewRequired(data_content) ==
    (IF data_content # "" /\ ~(Contains(data_content, "{") \/ Contains(data_content, "("))
     THEN <<Warning(MsgMalformedState(data_content))>> ELSE <<>>)
    \o
    (IF /\ data_content # ""
        /\ StartsAt(Strip(data_content), 1, "{")
        /\ Contains(data_content, "new ")
     THEN <<Warning(MsgInlineObject)>> ELSE <<>>)

\* the warnings of one occurrence with `data_content.startswith("{")`, no strip()
XDataWarningsNoStrip(data_content) ==
    (IF data_content # "" /\ ~(Contains(data_content, "{") \/ Contains(data_content, "("))
     THEN <<Warning(MsgMalformedState(data_content))>> ELSE <<>>)
    \o
    (IF /\ data_content # ""
        /\ StartsAt(data_content, 1, "{")
        /\ ~Contains(data_content, "new ")
     THEN <<Warning(MsgInlineObject)>> ELSE <<>>)

\* the warnings of one x-data occurrence whose group 1 is data_content
XDataWarnings(data_content) ==
    (IF data_content # "" /\ ~(Contains(data_content, "{") \/ Contains(data_content, "("))
     THEN <<Warning(MsgMalformedState(data_content))>> ELSE <<>>)
    \o
    (IF /\ data_content # ""
        /\ StartsAt(Strip(data_content), 1, "{")
        /\ ~Contains(data_content, "new ")
     THEN <<Warning(MsgInlineObject)>> ELSE <<>>)

RECURSIVE Flatten(_)
Flatten(ss) == IF ss = <<>> THEN <<>> ELSE Head(ss) \o Flatten(Tail(ss))

\* _check_alpine_usage with `if not has_alpine or "x-data" not in content`
CheckAlpineUsageOr(content, result) ==
    LET matches == FindIter(content, x_data_pattern, 1)
        group1(m) == SubSeq(content, MatchAt(content, m[1], x_data_prefix, 1), m[2] - 2)
        per_match ==
            IF Contains(content, "x-data")
            THEN Flatten([i \in 1..Len(matches) |-> XDataWarnings(group1(matches[i]))])
            ELSE <<>>
        has_alpine ==
            \E i \in 1..Len(alpine_directives) : Contains(content, alpine_directives[i])
    IN  per_match
        \o (IF ~has_alpine \/ ~Contains(content, "x-data")
            THEN <<Warning(MsgNoDirectives)>> ELSE <<>>)

check_alpine_usage(content, result) ==
    LET matches == FindIter(content, x_data_pattern, 1)
        \* match.group(1): from the end of the prefix to the closing quote
        group1(m) == SubSeq(content, MatchAt(content, m[1], x_data_prefix, 1), m[2] - 2)
        per_match ==
            IF Contains(content, "x-data")
            THEN Flatten([i \in 1..Len(matches) |-> XDataWarnings(group1(matches[i]))])
            ELSE <<>>
        has_alpine ==
            \E i \in 1..Len(alpine_directives) : Contains(content, alpine_directives[i])
    IN  per_match
        \o (IF ~has_alpine /\ ~Contains(content, "x-data")
            THEN <<Warning(MsgNoDirectives)>> ELSE <<>>)

\* check_template_structure that reports the full document with add_error
CheckTemplateStructureAsError(content, result) ==
    IF \/ Contains(content, "{% block")
       \/ Contains(content, "{% extends")
       \/ Contains(content, "{% include")
    THEN <<>>
    ELSE IF Contains(Lower(content), "<html") /\ Contains(Lower(content), "</html>")
         THEN <<Error(MsgFullDocument)>>
         ELSE <<>>

\* check_template_structure reading the result: silent once the component has failed
CheckTemplateStructureIfValid(content, result) ==
    IF \/ Contains(content, "{% block")
       \/ Contains(content, "{% extends")
       \/ Contains(content, "{% include")
       \/ ~result.is_valid
    THEN <<>>
    ELSE IF Contains(Lower(content), "<html") /\ Contains(Lower(content), "</html>")
         THEN <<Warning(MsgFullDocument)>>
         ELSE <<>>

check_template_structure(content, result) ==
    IF \/ Contains(content, "{% block")
       \/ Contains(content, "{% extends")
       \/ Contains(content, "{% include")
    THEN <<>>
    ELSE IF Contains(Lower(content), "<html") /\ Contains(Lower(content), "</html>")
         THEN <<Warning(MsgFullDocument)>>
         ELSE <<>>

\* check_macro_wrapper reading the result: silent once the component has failed
CheckMacroWrapperIfValid(content, result) ==
    IF result.is_valid /\ ~Contains(content, "{% macro") /\ ~Contains(content, "{%- macro")
    THEN <<Warning(MsgNoMacro)>>
    ELSE <<>>

\* check_macro_wrapper that knows the `{% macro` marker alone
CheckMacroWrapperOneMarker(content, result) ==
    IF ~Contains(content, "{% macro") THEN <<Warning(MsgNoMacro)>> ELSE <<>>

check_macro_wrapper(content, result) ==
    IF ~Contains(content, "{% macro") /\ ~Contains(content, "{%- macro")
    THEN <<Warning(MsgNoMacro)>>
    ELSE <<>>

\* r"this\.\w+\.push\s*\(" and its splice and pop siblings
MutationPattern(method) ==
    << Lit("this."), Plus("word"), Lit("."), Lit(method), Star("space"), Lit("(") >>
mutation_patterns ==
    << MutationPattern("push"), MutationPattern("splice"), MutationPattern("pop") >>

\* the loop without its break: a warning for each pattern found
CheckServerStateMutationNoBreak(content, result) ==
    LET W(k) == IF Search(content, mutation_patterns[k]) THEN <<Warning(MsgMutation)>> ELSE <<>>
    IN  W(1) \o W(2) \o W(3)

\* the loop stops (break) at the first pattern found
check_server_state_mutation(content, result) ==
    IF \E i \in 1..Len(mutation_patterns) : Search(content, mutation_patterns[i])
    THEN <<Warning(MsgMutation)>>
    ELSE <<>>

\* self.rules with the template-structure rule moved to the end of the list
RulesStructureLast ==
    << "check_inline_scripts", "check_htmx_usage", "check_alpine_usage",
       "check_macro_wrapper", "check_server_state_mutation", "check_template_structure" >>

\* self.rules, in list order
rules ==
    << "check_inline_scripts", "check_htmx_usage", "check_alpine_usage",
       "check_template_structure", "check_macro_wrapper", "check_server_state_mutation" >>

\* rule(content, result): the calls the rule makes on the result, in order
Rule(rule, content, result) ==
    CASE rule = "check_inline_scripts" -> check_inline_scripts(content, result)
      [] rule = "check_htmx_usage" -> check_htmx_usage(content, result)
      [] rule = "check_alpine_usage" -> check_alpine_usage(content, result)
      [] rule = "check_template_structure" -> check_template_structure(content, result)
      [] rule = "check_macro_wrapper" -> check_macro_wrapper(content, result)
      [] rule = "check_server_state_mutation" -> check_server_state_mutation(content, result)

----------------------------------------------------------------------------
\* Inputs: component texts, paths and what the file system holds at a path.

\* The corpus: lexical fragments the rules react to and near misses of them,
\* in families: one per rule, and one with a trigger of every rule.
ScriptFrags ==
    { "<script>f()</script>", "<script>class A {}</script>",
      "<script src=\"a.js\"></script>", "<SCRIPT type=x>", "</ script >",
      "HTMX.on()", "x-data" }
HandlerFrags ==
    { " onclick=\"f()\"", " onload =go", " ONCHANGE=", " onsubmit=", "onclick", " =",
      "<script>f()</script>" }
HtmxFrags ==
    { " hx-get=\"/x\"", " hx-swap=\"outerHTML\"", " hx-swap = 'outerHTML'",
      " hx-swap=\"innerHTML\"", " hx-swap", "=\"outerHTML\"", " hx-swap=\"outerHTML" }
AlpineFrags ==
    { " x-data=\"{ count: 0 }\"", " x-data=\"new C()\"", " x-data='counter'",
      " x-data=\"\"", " x-data", " x-text=\"n\"", "=\" { a: new B }\"" }
StructFrags ==
    { "{% macro m() %}", "{%- macro m() %}", "{% block b %}", "{% include 'i' %}",
      "{% extends 'b' %}", "<html>", "</HTML>" }
MutationFrags ==
    { "this.items.push(x)", "this.a.splice (0)", "this._b2.pop()", "items.push(x)",
      "this.", ".push(", "a" }
MixedFrags ==
    { "<script>f()</script>", " onclick=\"f()\"", " hx-swap=\"outerHTML\"",
      " x-data=\"{ count: 0 }\"", "<html></html>", "{% macro m() %}",
      "this.items.push(x)" }

Families ==
    { ScriptFrags, HandlerFrags, HtmxFrags, AlpineFrags, StructFrags, MutationFrags,
      MixedFrags }

\* whole components: those of the test suite, cut down, and one that makes
\* every rule report
SampleGood == "<div x-data=\"{ count: 0 }\"><span x-text=\"count\"></span></div>"
SampleScript == "<script>function f(){}</script>"
SampleSFC ==
    "{% macro c() %}<div x-data=\"new C()\"><b x-text=\"n\"></b></div>"
        \o "<script>class C {}</script>{% endmacro %}"
SamplePush == "this.items.push(a);this.items.push(b);this.items.push(c)"
SampleAll ==
    "<html><script>f()</script><a onclick=g onload=h hx-swap=\"outerHTML\""
        \o " x-data=\"{}\">this.a.pop()</a></html>"
\* a script block whose opening tag alone holds a sanctioned token
SampleTagToken == "<script id=\"htmx-cfg\">f()</script>"
\* an x-data value with white space before its brace
SamplePadded == "<div x-data=\" { count: 0 }\" x-text=\"n\"></div>"
\* a full document that opens its block with the whitespace-trimming tag
SampleTrimmedBlock == "<html>{%- block body %}{%- endblock %}</html>"
Samples ==
    { SampleGood, SampleScript, SampleSFC, SamplePush, SampleAll, SampleTagToken,
      SamplePadded, SampleTrimmedBlock }

\* every concatenation of at most n fragments of the set frags
RECURSIVE TextsOf(_, _)
TextsOf(n, frags) ==
    IF n = 0 THEN {""} ELSE {t \o f : t \in TextsOf(n - 1, frags), f \in frags \cup {""}}

\* the texts validated: the samples, and every concatenation of at most
\* MaxFrags fragments of one family
Texts == Samples \cup UNION {TextsOf(MaxFrags, frags) : frags \in Families}

Names == {"inline", "test"}

Paths == {"card.html", "ui/todo.tar.gz", "ui/.hidden", "widgets"}

\* what the path names when the call is made
Kinds == {"missing", "file", "dir"}

\* PurePath.name: what follows the last "/"
RECURSIVE PathName(_)
PathName(path) ==
    IF Contains(path, "/") THEN PathName(Tail(path)) ELSE path

\* the index of the last "." of name, 0 when there is none (str.rfind, 1-based)
RECURSIVE RFindDot(_)
RFindDot(name) ==
    IF name = "" THEN 0
    ELSE IF At(name, Len(name)) = "." THEN Len(name)
    ELSE RFindDot(SubSeq(name, 1, Len(name) - 1))

\* PurePath.stem: the name without its last suffix
Stem(path) ==
    LET name == PathName(path)
        i == RFindDot(name)
    IN  IF 1 < i /\ i < Len(name) THEN SubSeq(name, 1, i - 1) ELSE name

\* the texts the component files hold
FileContents == Samples \cup TextsOf(1, MixedFrags)

\* the texts a path of kind k can hold: only a file has one
FileTexts(k, texts) == IF k = "file" THEN texts ELSE {""}

----------------------------------------------------------------------------
\* ValidationResult.

\* the object as its fields read: errors and warnings dereferenced
View(self) ==
    [ is_valid |-> results[self].is_valid,
      errors |-> lists[results[self].errors],
      warnings |-> lists[results[self].warnings],
      component_name |-> results[self].component_name ]

\* ValidationResult with class-level defaults `errors = []` and `warnings = []`:
\* every object refers to the same two lists
NewResultSharedDefaults(component_name) ==
    /\ lists' = IF lists = <<>> THEN << <<>>, <<>> >> ELSE lists
    /\ results' = Append(results,
                         [ is_valid |-> TRUE, errors |-> 1, warnings |-> 2,
                           component_name |-> component_name ])

\* ValidationResult with the class-level default on `warnings` alone
NewResultSharedWarnings(component_name) ==
    /\ lists' = IF lists = <<>> THEN << <<>>, <<>> >> ELSE Append(lists, <<>>)
    /\ results' = Append(results,
                         [ is_valid |-> TRUE,
                           errors |-> IF lists = <<>> THEN 1 ELSE Len(lists) + 1,
                           warnings |-> 2,
                           component_name |-> component_name ])

\* ValidationResult(is_valid=True, component_name=...): a new object whose
\* errors and warnings are two new empty lists (default_factory=list)
NewResult(component_name) ==
    /\ lists' = lists \o << <<>>, <<>> >>
    /\ results' = Append(results,
                         [ is_valid |-> TRUE,
                           errors |-> Len(lists) + 1,
                           warnings |-> Len(lists) + 2,
                           component_name |-> component_name ])

\* add_error without its second statement
AddErrorNoFlag(self, message) ==
    /\ lists' = [lists EXCEPT ![results[self].errors] = Append(@, message)]
    /\ UNCHANGED results

\* add_error with `self.is_valid = not self.is_valid`
AddErrorToggle(self, message) ==
    /\ lists' = [lists EXCEPT ![results[self].errors] = Append(@, message)]
    /\ results' = [results EXCEPT ![self].is_valid = ~@]

\* add_error with `self.errors.insert(0, message)`
AddErrorPrepend(self, message) ==
    /\ lists' = [lists EXCEPT ![results[self].errors] = <<message>> \o @]
    /\ results' = [results EXCEPT ![self].is_valid = FALSE]

\* add_error's two statements: self.errors.append(message); self.is_valid = False
errors_append(self, message) ==
    lists' = [lists EXCEPT ![results[self].errors] = Append(@, message)]

set_invalid(self) ==
    results' = [results EXCEPT ![self].is_valid = FALSE]

add_error(self, message) ==
    /\ errors_append(self, message)
    /\ set_invalid(self)

\* add_warning with add_error's second statement pasted in
AddWarningInvalidates(self, message) ==
    /\ lists' = [lists EXCEPT ![results[self].warnings] = Append(@, message)]
    /\ results' = [results EXCEPT ![self].is_valid = FALSE]

add_warning(self, message) ==
    /\ lists' = [lists EXCEPT ![results[self].warnings] = Append(@, message)]
    /\ UNCHANGED results

\* The same two methods and the battery as functions of the object's fields:
\* what a call returns when nothing else touches its result.
FreshView(component_name) ==
    [is_valid |-> TRUE, errors |-> <<>>, warnings |-> <<>>, component_name |-> component_name]

Apply(view, c) ==
    IF c.kind = "error"
    THEN [view EXCEPT !.errors = Append(@, c.msg), !.is_valid = FALSE]
    ELSE [view EXCEPT !.warnings = Append(@, c.msg)]

RECURSIVE ApplyAll(_, _)
ApplyAll(view, calls) ==
    IF calls = <<>> THEN view ELSE ApplyAll(Apply(view, Head(calls)), Tail(calls))

\* for rule in order: rule(content, result)
RECURSIVE RunRules(_, _, _)
RunRules(order, content, view) ==
    IF order = <<>> THEN view
    ELSE RunRules(Tail(order), content, ApplyAll(view, Rule(Head(order), content, view)))

validate_string(content, component_name) ==
    RunRules(rules, content, FreshView(component_name))

----------------------------------------------------------------------------
\* CalculatorLogic (examples/calculator_logic.py): its numbers.
\* A float is kept as the decimal number it was read from or computed as: a
\* sign, the digits `mag` of an integer (most significant first, no leading
\* zero, <<>> for 0) and the number `exp` of those digits that stand after
\* the decimal point. The arithmetic is exact, where Python's is binary with
\* 53 significant bits: the two agree on integers below 2^53, and what the
\* rounding error of a fraction can change is said at ShownResults.

DECIMAL_PRECISION == 8

\* ---- natural numbers as digit sequences

RECURSIVE Strip0(_)
Strip0(m) == IF m # <<>> /\ Head(m) = 0 THEN Strip0(Tail(m)) ELSE m

Zeros(n) == [i \in 1..n |-> 0]

Reverse(m) == [i \in 1..Len(m) |-> m[Len(m) + 1 - i]]

\* -1, 0, 1 as a < b, a = b, a > b; for sequences of one length or without
\* leading zeros
CmpN(a, b) ==
    IF Len(a) # Len(b) THEN (IF Len(a) < Len(b) THEN -1 ELSE 1)
    ELSE LET differ == {i \in 1..Len(a) : a[i] # b[i]}
         IN  IF differ = {} THEN 0
             ELSE IF a[Min(differ)] < b[Min(differ)] THEN -1 ELSE 1

\* least significant digit first, with a carry
RECURSIVE AddLE(_, _, _)
AddLE(a, b, carry) ==
    IF a = <<>> /\ b = <<>> THEN (IF carry = 0 THEN <<>> ELSE <<carry>>)
    ELSE LET x == IF a = <<>> THEN 0 ELSE Head(a)
             y == IF b = <<>> THEN 0 ELSE Head(b)
             s == x + y + carry
         IN  <<s % 10>> \o AddLE(IF a = <<>> THEN <<>> ELSE Tail(a),
                                 IF b = <<>> THEN <<>> ELSE Tail(b), s \div 10)

AddN(a, b) == Strip0(Reverse(AddLE(Reverse(a), Reverse(b), 0)))

\* a - b for a >= b, least significant digit first, with a borrow
RECURSIVE SubLE(_, _, _)
SubLE(a, b, borrow) ==
    IF a = <<>> THEN <<>>
    ELSE LET y == IF b = <<>> THEN 0 ELSE Head(b)
             s == Head(a) - y - borrow
         IN  <<(s + 10) % 10>> \o SubLE(Tail(a), IF b = <<>> THEN <<>> ELSE Tail(b),
                                        IF s < 0 THEN 1 ELSE 0)

SubN(a, b) == Strip0(Reverse(SubLE(Reverse(a), Reverse(b), 0)))

RECURSIVE MulDigitLE(_, _, _)
MulDigitLE(a, d, carry) ==
    IF a = <<>> THEN (IF carry = 0 THEN <<>> ELSE <<carry>>)
    ELSE LET s == Head(a) * d + carry
         IN  <<s % 10>> \o MulDigitLE(Tail(a), d, s \div 10)

\* a times d, for d in 0..10
MulDigit(a, d) == Strip0(Reverse(MulDigitLE(Reverse(a), d, 0)))

RECURSIVE MulN(_, _)
MulN(a, b) ==
    IF b = <<>> THEN <<>>
    ELSE AddN(Strip0(MulN(a, SubSeq(b, 1, Len(b) - 1)) \o <<0>>), MulDigit(a, b[Len(b)]))

\* long division, a digit of the dividend at a time: quotient q and remainder r
RECURSIVE DivStep(_, _, _, _)
DivStep(digits, b, q, r) ==
    IF digits = <<>> THEN [q |-> Strip0(q), r |-> r]
    ELSE LET part == Strip0(r \o <<Head(digits)>>)
             k == CHOOSE k \in 0..9 : /\ CmpN(MulDigit(b, k), part) <= 0
                                      /\ CmpN(MulDigit(b, k + 1), part) > 0
         IN  DivStep(Tail(digits), b, q \o <<k>>, SubN(part, MulDigit(b, k)))

\* a divided by b, for b # 0
DivModN(a, b) == DivStep(a, b, <<>>, <<>>)

\* ---- decimal numbers

\* the number with the zeros at both ends of mag removed
RECURSIVE Norm(_, _, _)
Norm(neg, mag, exp) ==
    IF exp > 0 /\ mag # <<>> /\ mag[Len(mag)] = 0
    THEN Norm(neg, SubSeq(mag, 1, Len(mag) - 1), exp - 1)
    ELSE IF Strip0(mag) = <<>> THEN [neg |-> neg, mag |-> <<>>, exp |-> 0]
    ELSE [neg |-> neg, mag |-> Strip0(mag), exp |-> exp]

Zero == [neg |-> FALSE, mag |-> <<>>, exp |-> 0]

IsZero(x) == x.mag = <<>>

\* `value == int(value)`
Whole(x) == x.exp = 0

\* the digits of |x| * 10^exp, for exp >= x.exp
Scaled(x, exp) == Strip0(x.mag \o Zeros(exp - x.exp))

Negated(x) == [x EXCEPT !.neg = ~x.neg]

\* x + y
AddDec(x, y) ==
    LET exp == Max({x.exp, y.exp})
        a == Scaled(x, exp)
        b == Scaled(y, exp)
    IN  IF x.neg = y.neg THEN Norm(x.neg, AddN(a, b), exp)
        ELSE IF CmpN(a, b) >= 0 THEN Norm(x.neg /\ a # b, SubN(a, b), exp)
        ELSE Norm(y.neg, SubN(b, a), exp)

\* x * y
MulDec(x, y) == Norm(x.neg # y.neg, MulN(x.mag, y.mag), x.exp + y.exp)

\* round(x, places): to the nearest. When the exact x lies half way the
\* binary float lies at it or beside it, on either side (7.66666667 / 2 is
\* rounded to 3.83333333), so both neighbours are outcomes.
Roundings(x, places) ==
    IF x.exp <= places THEN {x}
    ELSE LET cut == x.exp - places
             m == Zeros(cut - Len(x.mag)) \o x.mag
             keep == Strip0(SubSeq(m, 1, Len(m) - cut))
             rest == SubSeq(m, Len(m) - cut + 1, Len(m))
             c == CmpN(rest, <<5>> \o Zeros(cut - 1))
             down == Norm(x.neg, keep, places)
             up == Norm(x.neg, AddN(keep, <<1>>), places)
         IN  IF c < 0 THEN {down} ELSE IF c > 0 THEN {up} ELSE {down, up}

\* x / y for y # 0: whether the quotient is a whole number, that number, and
\* the quotient rounded to `places` decimal places (as in Roundings)
Quotient(x, y, places) ==
    LET exp == Max({x.exp, y.exp})
        a == Scaled(x, exp)
        b == Scaled(y, exp)
        d == DivModN(a \o Zeros(places), b)
        c == CmpN(MulDigit(d.r, 2), b)
        down == Norm(x.neg # y.neg, d.q, places)
        up == Norm(x.neg # y.neg, AddN(d.q, <<1>>), places)
    IN  [ whole |-> DivModN(a, b).r = <<>>,
          value |-> Norm(x.neg # y.neg, DivModN(a, b).q, 0),
          rounded |-> IF c < 0 THEN {down} ELSE IF c > 0 THEN {up} ELSE {down, up} ]

\* ---- float(str) and str(float)

RECURSIVE DigitsStr(_)
DigitsStr(m) == IF m = <<>> THEN "" ELSE At(Digits, Head(m) + 1) \o DigitsStr(Tail(m))

DigitOf(c) == CHOOSE d \in 0..9 : At(Digits, d + 1) = c

DigitsOf(s) == [i \in 1..Len(s) |-> DigitOf(At(s, i))]

IsDigit(c) == Len(c) = 1 /\ c \in Chars(Digits)

AllDigits(s) == \A i \in 1..Len(s) : IsDigit(At(s, i))

\* the position of the first c in s, 0 when there is none
Find(s, c) ==
    LET found == {i \in 1..Len(s) : At(s, i) = c}
    IN  IF found = {} THEN 0 ELSE Min(found)

Unsigned(s) == IF s # "" /\ Head(s) = "-" THEN Tail(s) ELSE s

\* the text before and after the first c of s; all of s and "" without one
TextBefore(s, c) == IF Find(s, c) = 0 THEN s ELSE SubSeq(s, 1, Find(s, c) - 1)
TextAfter(s, c) == IF Find(s, c) = 0 THEN "" ELSE SubSeq(s, Find(s, c) + 1, Len(s))

\* float(s) returns: digits with at most one point among them and at least
\* one digit, after an optional sign and before an optional exponent
Floatable(s) ==
    LET mantissa == TextBefore(Unsigned(s), "e")
        exponent == TextAfter(Unsigned(s), "e")
        whole == TextBefore(mantissa, ".")
        frac == TextAfter(mantissa, ".")
    IN  /\ AllDigits(whole) /\ AllDigits(frac)
        /\ whole \o frac # ""
        /\ Find(Unsigned(s), "e") # 0 =>
              /\ Len(exponent) >= 2
              /\ Head(exponent) \in {"-", "+"}
              /\ AllDigits(Tail(exponent))

\* the value of a string of at most two digits
SmallInt(s) == IF Len(s) = 1 THEN DigitOf(s) ELSE 10 * DigitOf(At(s, 1)) + DigitOf(At(s, 2))

\* float(s), for a Floatable s
Parse(s) ==
    LET mantissa == TextBefore(Unsigned(s), "e")
        exponent == TextAfter(Unsigned(s), "e")
        whole == TextBefore(mantissa, ".")
        frac == TextAfter(mantissa, ".")
        power == IF exponent = "" THEN 0
                 ELSE IF Head(exponent) = "-" THEN 0 - SmallInt(Tail(exponent))
                 ELSE SmallInt(Tail(exponent))
        exp == Len(frac) - power
        mag == DigitsOf(whole \o frac)
    IN  IF exp >= 0 THEN Norm(s # Unsigned(s), mag, exp)
        ELSE Norm(s # Unsigned(s), mag \o Zeros(0 - exp), 0)

\* str(int(x)), for a whole x
IntStr(x) ==
    IF IsZero(x) THEN "0" ELSE (IF x.neg THEN "-" ELSE "") \o DigitsStr(x.mag)

RECURSIVE StripTrailing0(_)
StripTrailing0(m) ==
    IF m # <<>> /\ m[Len(m)] = 0 THEN StripTrailing0(SubSeq(m, 1, Len(m) - 1)) ELSE m

TwoDigits(n) == IF n < 10 THEN "0" \o DigitsStr(<<n>>) ELSE DigitsStr(<<n \div 10, n % 10>>)

\* str(x) of a float x (its repr): the digits with a point and at least one
\* digit after it, and the exponent form below 1e-04 and from 1e+16
FloatStr(x) ==
    LET sign == IF x.neg THEN "-" ELSE ""
        n == Len(x.mag)
        power == n - x.exp - 1          \* of the first digit
        digits == StripTrailing0(x.mag)
        first == DigitsStr(<<Head(digits)>>)
        others == IF Len(digits) > 1 THEN "." \o DigitsStr(Tail(digits)) ELSE ""
    IN  IF IsZero(x) THEN sign \o "0.0"
        ELSE IF power < -4 THEN sign \o first \o others \o "e-" \o TwoDigits(0 - power)
        ELSE IF power >= 16 THEN sign \o first \o others \o "e+" \o TwoDigits(power)
        ELSE IF x.exp = 0 THEN sign \o DigitsStr(x.mag) \o ".0"
        ELSE IF power >= 0
             THEN sign \o DigitsStr(SubSeq(x.mag, 1, n - x.exp)) \o "."
                       \o DigitsStr(SubSeq(x.mag, n - x.exp + 1, n))
        ELSE sign \o "0." \o DigitsStr(Zeros(x.exp - n)) \o DigitsStr(x.mag)

\* ---- the object

\* the operations input_operation accepts
Operations == {"+", "-", "*", "/"}

\* a line of the history: the operands, the operation and the result as the
\* display shows it (the line itself ends with the repr of the unrounded float)
Entry(previous, operation, current, shown) ==
    [previous |-> previous, operation |-> operation, current |-> current, result |-> shown]

\* how the last method call ended: with the value returned, or with the
\* text of the ValueError raised
NoOutcome == [outcome |-> "none", value |-> ""]
Returned(value) == [outcome |-> "returned", value |-> value]
Raised(text) == [outcome |-> "raised", value |-> text]

MsgInvalidDigit(digit) == "Invalid digit: " \o digit
MsgInvalidOperation(operation) == "Invalid operation: " \o operation
MsgNotFloat(s) == "could not convert string to float: '" \o s \o "'"

\* CalculatorLogic.__init__; `operation` is "" for None, `last` is the outcome
\* of the last method call and `calls` the number of calls made
NewCalculator ==
    [ display |-> "0", current_value |-> Zero, previous_value |-> Zero, operation |-> "",
      new_number |-> TRUE, history |-> <<>>, last |-> NoOutcome, calls |-> 0 ]

\* the method has run on c and ended with `outcome`
Called(c, outcome) == [c EXCEPT !.last = outcome, !.calls = @ + 1]

\* the display calculate sets for previous (operation) current, the division
\* by zero apart: str(int(result)) when result == int(result), else
\* str(round(result, DECIMAL_PRECISION)). With an operand that is no whole
\* number the binary result can miss a whole exact result by its rounding
\* error (2.3 - 0.3 is 1.9999999999999998): the test then fails and the
\* display is the rounded float ("2.0"); both displays are outcomes here.
\* A result of zero is exact in binary too, and so is x / x.
ShownResults(previous, operation, current) ==
    LET exact == CASE operation = "+" -> AddDec(previous, current)
                   [] operation = "-" -> AddDec(previous, Negated(current))
                   [] operation = "*" -> MulDec(previous, current)
        result == IF operation = "/" THEN Quotient(previous, current, DECIMAL_PRECISION)
                  ELSE [whole |-> Whole(exact), value |-> exact,
                        rounded |-> Roundings(exact, DECIMAL_PRECISION)]
    IN  IF ~result.whole THEN {FloatStr(x) : x \in result.rounded}
        ELSE IF (Whole(previous) /\ Whole(current)) \/ IsZero(result.value)
                \/ (operation = "/" /\ previous = current)
             THEN {IntStr(result.value)}
        ELSE {IntStr(result.value), FloatStr(result.value)}

\* calculate whose division by zero leaves the operation pending
CalculateResultsKeepsOperation(c) ==
    IF c.operation = "" THEN {[state |-> c, raised |-> ""]}
    ELSE IF ~Floatable(c.display) THEN {[state |-> c, raised |-> MsgNotFloat(c.display)]}
    ELSE LET current == Parse(c.display)
             c0 == [c EXCEPT !.current_value = current]
         IN  IF c.operation = "/" /\ IsZero(current)
             THEN {[state |-> [c0 EXCEPT !.display = "Error", !.new_number = TRUE], raised |-> ""]}
             ELSE {[state |-> [c0 EXCEPT !.display = shown,
                                         !.history = Append(@, Entry(c.previous_value,
                                                               c.operation, current, shown)),
                                         !.operation = "", !.new_number = TRUE],
                    raised |-> ""] :
                   shown \in ShownResults(c.previous_value, c.operation, current)}

\* calculate run on c: the objects it can leave, each with the text of the
\* error raised ("" when it returns). float(self._display) stands before the
\* try; the division by zero is answered before the result is formatted and
\* the history line written.
CalculateResults(c) ==
    IF c.operation = "" THEN {[state |-> c, raised |-> ""]}
    ELSE IF ~Floatable(c.display) THEN {[state |-> c, raised |-> MsgNotFloat(c.display)]}
    ELSE LET current == Parse(c.display)
             c0 == [c EXCEPT !.current_value = current]
         IN  IF c.operation = "/" /\ IsZero(current)
             THEN {[state |-> [c0 EXCEPT !.display = "Error", !.operation = "",
                                         !.new_number = TRUE],
                    raised |-> ""]}
             ELSE {[state |-> [c0 EXCEPT !.display = shown,
                                         !.history = Append(@, Entry(c.previous_value,
                                                               c.operation, current, shown)),
                                         !.operation = "", !.new_number = TRUE],
                    raised |-> ""] :
                   shown \in ShownResults(c.previous_value, c.operation, current)}

----------------------------------------------------------------------------
\* ComponentValidator: one call at a time, a rule at a time, a finding at a time.

\* `name` is the component_name handed to validate_string, `exit` the exit
\* status of the command line (-1 while there is none)
NoCall ==
    [ op |-> "none", content |-> "", name |-> "", path |-> "", kind |-> "", result |-> 0,
      ran |-> <<>>, exit |-> -1 ]

Init ==
    /\ lists = <<>>
    /\ results = <<>>
    /\ call = NoCall
    /\ pc = "idle"
    /\ todo = <<>>
    /\ pending = <<>>
    /\ ret = 0
    /\ log = <<>>
    /\ procs = <<>>
    /\ files = <<>>
    /\ calc = NewCalculator

\* the validator is between two calls, and has made fewer than `limit`
Ready(limit) == pc \in {"idle", "returned", "raised"} /\ Len(results) < limit

\* validate_string up to the loop over self.rules
ValidateString(content, component_name, limit) ==
    /\ Ready(limit)
    /\ NewResult(component_name)
    /\ call' = [NoCall EXCEPT !.op = "validate_string", !.content = content,
                              !.name = component_name, !.result = Len(results) + 1]
    /\ pc' = "rules"
    /\ todo' = rules
    /\ pending' = <<>>
    /\ ret' = 0
    /\ UNCHANGED <<log, procs, files, calc>>

\* validate_component without the `return result` of the missing-file branch,
\* and a read that yields the empty text there
ValidateComponentNoReturn(path, kind, content, limit) ==
    /\ Ready(limit)
    /\ NewResult(Stem(path))
    /\ call' = [NoCall EXCEPT !.op = "validate_component", !.path = path, !.kind = kind,
                              !.content = IF kind = "file" THEN content ELSE "",
                              !.result = Len(results) + 1]
    /\ ret' = 0
    /\ pc' = IF kind = "dir" THEN "raised" ELSE "rules"
    /\ todo' = IF kind = "dir" THEN <<>> ELSE rules
    /\ pending' = IF kind = "missing" THEN <<Error(MsgNotFound(path))>> ELSE <<>>
    /\ UNCHANGED <<log, procs, files, calc>>

\* validate_component with `for rule in self.rules[1:]`
ValidateComponentSkipsRule(path, kind, content, limit) ==
    /\ Ready(limit)
    /\ NewResult(Stem(path))
    /\ call' = [NoCall EXCEPT !.op = "validate_component", !.path = path, !.kind = kind,
                              !.content = IF kind = "file" THEN content ELSE "",
                              !.result = Len(results) + 1]
    /\ ret' = 0
    /\ pc' = IF kind = "dir" THEN "raised" ELSE "rules"
    /\ todo' = IF kind = "file" THEN Tail(rules) ELSE <<>>
    /\ pending' = IF kind = "missing" THEN <<Error(MsgNotFound(path))>> ELSE <<>>
    /\ UNCHANGED <<log, procs, files, calc>>

\* validate_component up to the loop over self.rules: the result is made, then
\* a missing path is reported by add_error and returned at once; read_text
\* raises on a directory; a file's text goes to the rules
ValidateComponent(path, kind, content, limit) ==
    /\ Ready(limit)
    /\ NewResult(Stem(path))
    /\ call' = [NoCall EXCEPT !.op = "validate_component", !.path = path, !.kind = kind,
                              !.content = IF kind = "file" THEN content ELSE "",
                              !.result = Len(results) + 1]
    /\ ret' = 0
    /\ \/ /\ kind = "missing"                 \* not component_path.exists()
          /\ pc' = "rules"
          /\ todo' = <<>>
          /\ pending' = <<Error(MsgNotFound(path))>>
       \/ /\ kind = "dir"                     \* read_text(): IsADirectoryError
          /\ pc' = "raised"
          /\ todo' = <<>>
          /\ pending' = <<>>
       \/ /\ kind = "file"
          /\ pc' = "rules"
          /\ todo' = rules
          /\ pending' = <<>>
    /\ UNCHANGED <<log, procs, files, calc>>

\* `for rule in self.rules: rule(content, result)`: the next rule starts
StartRule ==
    /\ pc = "rules"
    /\ pending = <<>>
    /\ todo # <<>>
    /\ pending' = Rule(Head(todo), call.content, View(call.result))
    /\ todo' = Tail(todo)
    /\ call' = [call EXCEPT !.ran = Append(@, Head(todo))]
    /\ UNCHANGED <<lists, results, pc, ret, log, procs, files, calc>>

\* the running rule (or the missing-file branch) calls result.add_error
AddError ==
    /\ pc = "rules"
    /\ pending # <<>>
    /\ Head(pending).kind = "error"
    /\ add_error(call.result, Head(pending).msg)
    /\ pending' = Tail(pending)
    /\ UNCHANGED <<call, pc, todo, ret, log, procs, files, calc>>

\* the running rule calls result.add_warning
AddWarning ==
    /\ pc = "rules"
    /\ pending # <<>>
    /\ Head(pending).kind = "warning"
    /\ add_warning(call.result, Head(pending).msg)
    /\ pending' = Tail(pending)
    /\ UNCHANGED <<call, pc, todo, ret, log, procs, files, calc>>

\* `return result`
Return ==
    /\ pc = "rules"
    /\ pending = <<>>
    /\ todo = <<>>
    /\ pc' = "returned"
    /\ ret' = call.result
    /\ log' = Append(log, [call |-> call, returned |-> View(call.result)])
    /\ UNCHANGED <<lists, results, call, todo, pending, procs, files, calc>>

Step == StartRule \/ AddError \/ AddWarning \/ Return

\* one call of either entry point on a new validator, over every text
Next ==
    \/ Ready(1) /\ \E c \in Texts, n \in Names : ValidateString(c, n, 1)
    \/ Ready(1) /\ \E p \in Paths, k \in Kinds :
                       \E c \in FileTexts(k, FileContents) : ValidateComponent(p, k, c, 1)
    \/ Step

Spec == Init /\ [][Next]_vars

----------------------------------------------------------------------------
\* A session: up to MaxCalls calls, one after the other, on one validator.

SessionTexts == {SampleGood, SampleScript, SampleAll}
SessionPaths == {"card.html", "widgets"}

NextSession ==
    \/ Ready(MaxCalls) /\ \E c \in SessionTexts, n \in Names : ValidateString(c, n, MaxCalls)
    \/ Ready(MaxCalls) /\ \E p \in SessionPaths, k \in Kinds :
                \E c \in FileTexts(k, SessionTexts) : ValidateComponent(p, k, c, MaxCalls)
    \/ Step

SpecSession == Init /\ [][NextSession]_vars

----------------------------------------------------------------------------
\* The battery with its rules in any order: each rule that has not run yet may
\* be the next one.

RemoveAt(seq, k) == SubSeq(seq, 1, k - 1) \o SubSeq(seq, k + 1, Len(seq))

StartAnyRule ==
    /\ pc = "rules"
    /\ pending = <<>>
    /\ todo # <<>>
    /\ \E k \in 1..Len(todo) :
          /\ pending' = Rule(todo[k], call.content, View(call.result))
          /\ todo' = RemoveAt(todo, k)
          /\ call' = [call EXCEPT !.ran = Append(@, todo[k])]
    /\ UNCHANGED <<lists, results, pc, ret, log, procs, files, calc>>

PermTexts == SessionTexts

NextPerm ==
    \/ Ready(1) /\ \E c \in PermTexts : ValidateString(c, "inline", 1)
    \/ StartAnyRule
    \/ AddError
    \/ AddWarning
    \/ Return

SpecPerm == Init /\ [][NextPerm]_vars

----------------------------------------------------------------------------
\* The battery with its rules as concurrent processes on one result, no lock:
\* add_error is two steps (the append, then the flag), add_warning one.

RuleSet == {rules[i] : i \in 1..Len(rules)}

ConcTexts == Samples \cup TextsOf(MaxFrags, MixedFrags)

ConcStart(content) ==
    /\ Ready(1)
    /\ NewResult("inline")
    /\ call' = [NoCall EXCEPT !.op = "validate_string", !.content = content,
                              !.name = "inline", !.result = Len(results) + 1,
                              !.ran = rules]
    /\ pc' = "threads"
    /\ procs' = [r \in RuleSet |->
                    [calls |-> Rule(r, content, FreshView("inline")), at |-> "call"]]
    /\ ret' = 0
    /\ UNCHANGED <<todo, pending, log, files, calc>>

\* self.errors.append(message)
ConcErrorsAppend(r) ==
    /\ pc = "threads"
    /\ procs[r].at = "call"
    /\ procs[r].calls # <<>>
    /\ Head(procs[r].calls).kind = "error"
    /\ errors_append(call.result, Head(procs[r].calls).msg)
    /\ procs' = [procs EXCEPT ![r].at = "flag"]
    /\ UNCHANGED <<results, call, pc, todo, pending, ret, log, files, calc>>

\* self.is_valid = False
ConcSetInvalid(r) ==
    /\ pc = "threads"
    /\ procs[r].at = "flag"
    /\ set_invalid(call.result)
    /\ procs' = [procs EXCEPT ![r] = [calls |-> Tail(@.calls), at |-> "call"]]
    /\ UNCHANGED <<lists, call, pc, todo, pending, ret, log, files, calc>>

ConcAddWarning(r) ==
    /\ pc = "threads"
    /\ procs[r].at = "call"
    /\ procs[r].calls # <<>>
    /\ Head(procs[r].calls).kind = "warning"
    /\ add_warning(call.result, Head(procs[r].calls).msg)
    /\ procs' = [procs EXCEPT ![r].calls = Tail(@)]
    /\ UNCHANGED <<call, pc, todo, pending, ret, log, files, calc>>

\* every rule has finished
ConcJoin ==
    /\ pc = "threads"
    /\ \A r \in RuleSet : procs[r].calls = <<>>
    /\ pc' = "returned"
    /\ ret' = call.result
    /\ log' = Append(log, [call |-> call, returned |-> View(call.result)])
    /\ UNCHANGED <<lists, results, call, todo, pending, procs, files, calc>>

NextConc ==
    \/ Ready(1) /\ \E c \in ConcTexts : ConcStart(c)
    \/ \E r \in RuleSet : ConcErrorsAppend(r)
    \/ \E r \in RuleSet : ConcSetInvalid(r)
    \/ \E r \in RuleSet : ConcAddWarning(r)
    \/ ConcJoin

SpecConc == Init /\ [][NextConc]_vars

----------------------------------------------------------------------------
\* The command line: `zen-temple validate COMPONENT_PATH`, one run of the
\* process.  pc = "exited" when the process has ended, call.exit its status.

\* click.Path(exists=True) refuses a path at which nothing exists: a usage
\* error, status 2, and the body of validate does not run
CliRejectPath(path) ==
    /\ pc = "idle"
    /\ call' = [NoCall EXCEPT !.op = "validate", !.path = path, !.kind = "missing",
                              !.exit = 2]
    /\ pc' = "exited"
    /\ UNCHANGED <<lists, results, todo, pending, ret, log, procs, files, calc>>

\* the body of validate up to the call: a new validator, and
\* validator.validate_component(Path(component_path))
CliValidate(path, kind, content) ==
    /\ pc = "idle"
    /\ kind # "missing"
    /\ ValidateComponent(path, kind, content, 1)

\* the end of validate with `if not result.is_valid or result.warnings`
CliExitOnWarnings ==
    /\ pc = "returned"
    /\ pc' = "exited"
    /\ call' = [call EXCEPT !.exit =
                    IF View(ret).is_valid /\ View(ret).warnings = <<>> THEN 0 ELSE 1]
    /\ UNCHANGED <<lists, results, todo, pending, ret, log, procs, files, calc>>

\* the end of validate: `if not result.is_valid: sys.exit(1)`, and status 0
\* when the function returns
CliExit ==
    /\ pc = "returned"
    /\ pc' = "exited"
    /\ call' = [call EXCEPT !.exit = IF View(ret).is_valid THEN 0 ELSE 1]
    /\ UNCHANGED <<lists, results, todo, pending, ret, log, procs, files, calc>>

\* the exception of read_text leaves validate and the process: status 1
CliUncaught ==
    /\ pc = "raised"
    /\ pc' = "exited"
    /\ call' = [call EXCEPT !.exit = 1]
    /\ UNCHANGED <<lists, results, todo, pending, ret, log, procs, files, calc>>

NextCli ==
    \/ \E p \in Paths : CliRejectPath(p)
    \/ pc = "idle" /\ \E p \in Paths, k \in Kinds :
                          \E c \in FileTexts(k, FileContents) : CliValidate(p, k, c)
    \/ Step
    \/ CliExit
    \/ CliUncaught

SpecCli == Init /\ [][NextCli]_vars

----------------------------------------------------------------------------
\* ScaffoldGenerator.generate_project, then the validation of what it wrote.
\* `files` is the tree under project_root: each path that exists, with its
\* kind ("dir", "file", or "data" for a file whose text is not a template:
\* zen-temple.yaml, README.md, index.html with its non-ASCII text, and the
\* server files) and, for a template, its text.

\* the text _create_base_layout writes to templates/layouts/base.html
layout_content ==
        "<!DOCTYPE html>\n"
        \o "<html lang=\"en\">\n"
        \o "<head>\n"
        \o "    <meta charset=\"UTF-8\">\n"
        \o "    <meta name=\"viewport\" content=\"width=device-width, initial-scale=1.0\">\n"
        \o "    <title>{% block title %}zen-temple App{% endblock %}</title>\n"
        \o "    \n"
        \o "    <!-- Tailwind CSS -->\n"
        \o "    <script src=\"https://cdn.tailwindcss.com\"></script>\n"
        \o "    \n"
        \o "    <!-- HTMX -->\n"
        \o "    <script src=\"https://unpkg.com/htmx.org@1.9.10\"></script>\n"
        \o "    \n"
        \o "    <!-- Alpine.js -->\n"
        \o "    <script defer src=\"https://unpkg.com/alpinejs@3.13.5/dist/cdn.min.js\"></script>\n"
        \o "    \n"
        \o "    {% block extra_head %}{% endblock %}\n"
        \o "</head>\n"
        \o "<body class=\"bg-gray-50 min-h-screen\">\n"
        \o "    <!-- Main container -->\n"
        \o "    <div class=\"container mx-auto px-4 py-8\">\n"
        \o "        {% block content %}\n"
        \o "        <!-- Page content goes here -->\n"
        \o "        {% endblock %}\n"
        \o "    </div>\n"
        \o "    \n"
        \o "    {% block extra_body %}{% endblock %}\n"
        \o "</body>\n"
        \o "</html>\n"

\* the text _create_example_components writes to templates/components/counter.html
counter_content ==
        "<!-- Counter Component - Demonstrates Alpine.js class-based state management -->\n"
        \o "{%- macro counter(initial_count=0) -%}\n"
        \o "<div \n"
        \o "    x-data=\"new CounterState({{ initial_count }})\"\n"
        \o "    class=\"bg-white rounded-lg shadow-md p-6 max-w-md\"\n"
        \o ">\n"
        \o "    <h3 class=\"text-xl font-semibold mb-4\">Counter</h3>\n"
        \o "    \n"
        \o "    <div class=\"flex items-center justify-between mb-4\">\n"
        \o "        <button \n"
        \o "            @click=\"decrement()\"\n"
        \o "            class=\"bg-red-500 hover:bg-red-600 text-white px-4 py-2 rounded\"\n"
        \o "        >\n"
        \o "            -\n"
        \o "        </button>\n"
        \o "        \n"
        \o "        <span class=\"text-3xl font-bold\" x-text=\"count\"></span>\n"
        \o "        \n"
        \o "        <button \n"
        \o "            @click=\"increment()\"\n"
        \o "            class=\"bg-green-500 hover:bg-green-600 text-white px-4 py-2 rounded\"\n"
        \o "        >\n"
        \o "            +\n"
        \o "        </button>\n"
        \o "    </div>\n"
        \o "    \n"
        \o "    <button \n"
        \o "        @click=\"reset()\"\n"
        \o "        class=\"w-full bg-gray-500 hover:bg-gray-600 text-white px-4 py-2 rounded\"\n"
        \o "    >\n"
        \o "        Reset\n"
        \o "    </button>\n"
        \o "    \n"
        \o "    <div class=\"mt-4 text-sm text-gray-600\">\n"
        \o "        <p>Double: <span x-text=\"double\"></span></p>\n"
        \o "    </div>\n"
        \o "</div>\n"
        \o "\n"
        \o "<script>\n"
        \o "// CounterState - Encapsulated component state and logic\n"
        \o "class CounterState {\n"
        \o "    constructor(initialCount = 0) {\n"
        \o "        this.count = initialCount;\n"
        \o "    }\n"
        \o "    \n"
        \o "    increment() {\n"
        \o "        this.count++;\n"
        \o "    }\n"
        \o "    \n"
        \o "    decrement() {\n"
        \o "        this.count--;\n"
        \o "    }\n"
        \o "    \n"
        \o "    reset() {\n"
        \o "        this.count = 0;\n"
        \o "    }\n"
        \o "    \n"
        \o "    // Computed property using getter\n"
        \o "    get double() {\n"
        \o "        return this.count * 2;\n"
        \o "    }\n"
        \o "}\n"
        \o "</script>\n"
        \o "{%- endmacro -%}\n"

\* the text written to templates/components/todo.html
todo_content ==
        "<!-- Todo List Component - Demonstrates class-based state management -->\n"
        \o "{%- macro todo() -%}\n"
        \o "<div \n"
        \o "    x-data=\"new TodoState()\"\n"
        \o "    class=\"bg-white rounded-lg shadow-md p-6 max-w-2xl\"\n"
        \o ">\n"
        \o "    <h3 class=\"text-xl font-semibold mb-4\">Todo List</h3>\n"
        \o "    \n"
        \o "    <!-- Add todo form -->\n"
        \o "    <div class=\"flex gap-2 mb-4\">\n"
        \o "        <input \n"
        \o "            type=\"text\"\n"
        \o "            x-model=\"newTodo\"\n"
        \o "            @keyup.enter=\"addTodo()\"\n"
        \o "            placeholder=\"Add a new todo...\"\n"
        \o "            class=\"flex-1 px-4 py-2 border border-gray-300 rounded focus:outline-none focus:ring-2 focus:ring-blue-500\"\n"
        \o "        />\n"
        \o "        <button \n"
        \o "            @click=\"addTodo()\"\n"
        \o "            class=\"bg-blue-500 hover:bg-blue-600 text-white px-6 py-2 rounded\"\n"
        \o "        >\n"
        \o "            Add\n"
        \o "        </button>\n"
        \o "    </div>\n"
        \o "    \n"
        \o "    <!-- Todo list -->\n"
        \o "    <ul class=\"space-y-2\">\n"
        \o "        <template x-for=\"todo in todos\" :key=\"todo.id\">\n"
        \o "            <li class=\"flex items-center gap-2 p-3 bg-gray-50 rounded\">\n"
        \o "                <input \n"
        \o "                    type=\"checkbox\"\n"
        \o "                    :checked=\"todo.completed\"\n"
        \o "                    @change=\"toggleTodo(todo.id)\"\n"
        \o "                    class=\"w-5 h-5 text-blue-500\"\n"
        \o "                />\n"
        \o "                <span \n"
        \o "                    x-text=\"todo.text\"\n"
        \o "                    :class=\"{ 'line-through text-gray-400': todo.completed }\"\n"
        \o "                    class=\"flex-1\"\n"
        \o "                ></span>\n"
        \o "                <button \n"
        \o "                    @click=\"removeTodo(todo.id)\"\n"
        \o "                    class=\"text-red-500 hover:text-red-700\"\n"
        \o "                >\n"
        \o "                    Delete\n"
        \o "                </button>\n"
        \o "            </li>\n"
        \o "        </template>\n"
        \o "    </ul>\n"
        \o "    \n"
        \o "    <div x-show=\"todos.length === 0\" class=\"text-center text-gray-400 py-8\">\n"
        \o "        No todos yet. Add one above!\n"
        \o "    </div>\n"
        \o "    \n"
        \o "    <div class=\"mt-4 text-sm text-gray-600\">\n"
        \o "        <p>Total: <span x-text=\"totalCount\"></span> | Completed: <span x-text=\"completedCount\"></span></p>\n"
        \o "    </div>\n"
        \o "</div>\n"
        \o "\n"
        \o "<script>\n"
        \o "// TodoState - Encapsulated todo list state and logic\n"
        \o "class TodoState {\n"
        \o "    constructor() {\n"
        \o "        this.todos = [];\n"
        \o "        this.newTodo = '';\n"
        \o "    }\n"
        \o "    \n"
        \o "    addTodo() {\n"
        \o "        if (this.newTodo.trim()) {\n"
        \o "            this.todos.push({\n"
        \o "                id: Date.now(),\n"
        \o "                text: this.newTodo,\n"
        \o "                completed: false\n"
        \o "            });\n"
        \o "            this.newTodo = '';\n"
        \o "        }\n"
        \o "    }\n"
        \o "    \n"
        \o "    toggleTodo(id) {\n"
        \o "        const todo = this.todos.find(t => t.id === id);\n"
        \o "        if (todo) todo.completed = !todo.completed;\n"
        \o "    }\n"
        \o "    \n"
        \o "    removeTodo(id) {\n"
        \o "        this.todos = this.todos.filter(t => t.id !== id);\n"
        \o "    }\n"
        \o "    \n"
        \o "    // Computed properties using getters\n"
        \o "    get totalCount() {\n"
        \o "        return this.todos.length;\n"
        \o "    }\n"
        \o "    \n"
        \o "    get completedCount() {\n"
        \o "        return this.todos.filter(t => t.completed).length;\n"
        \o "    }\n"
        \o "}\n"
        \o "</script>\n"
        \o "{%- endmacro -%}\n"

\* the text written to templates/components/data_fetch.html
fetch_content ==
        "<!-- Data Fetch Component - Demonstrates HTMX with explicit data flow -->\n"
        \o "{%- macro data_fetch() -%}\n"
        \o "<div \n"
        \o "    x-data=\"new DataFetchState()\"\n"
        \o "    @htmx:after-request=\"sync($event.detail.xhr.response)\"\n"
        \o "    class=\"bg-white rounded-lg shadow-md p-6 max-w-2xl\"\n"
        \o ">\n"
        \o "    <h3 class=\"text-xl font-semibold mb-4\">Data Fetcher</h3>\n"
        \o "    \n"
        \o "    <button \n"
        \o "        hx-get=\"/api/data\"\n"
        \o "        hx-trigger=\"click\"\n"
        \o "        hx-swap=\"none\"\n"
        \o "        class=\"bg-blue-500 hover:bg-blue-600 text-white px-6 py-2 rounded mb-4\"\n"
        \o "    >\n"
        \o "        Load Data\n"
        \o "    </button>\n"
        \o "    \n"
        \o "    <div x-show=\"loading\" class=\"text-center py-4\">\n"
        \o "        <span class=\"text-gray-500\">Loading...</span>\n"
        \o "    </div>\n"
        \o "    \n"
        \o "    <div \n"
        \o "        x-show=\"!loading && items.length > 0\"\n"
        \o "        class=\"space-y-2\"\n"
        \o "    >\n"
        \o "        <template x-for=\"item in items\" :key=\"item.id\">\n"
        \o "            <div class=\"p-3 bg-gray-50 rounded border\">\n"
        \o "                <strong x-text=\"item.title\"></strong>: <span x-text=\"item.description\"></span>\n"
        \o "            </div>\n"
        \o "        </template>\n"
        \o "    </div>\n"
        \o "    \n"
        \o "    <div \n"
        \o "        x-show=\"!loading && items.length === 0\"\n"
        \o "        class=\"p-4 bg-gray-50 rounded min-h-[100px] text-center text-gray-400\"\n"
        \o "    >\n"
        \o "        Click the button to load data from the server.\n"
        \o "    </div>\n"
        \o "    \n"
        \o "    <div class=\"mt-4 text-sm text-gray-600\">\n"
        \o "        <p>Items loaded: <span x-text=\"itemCount\"></span></p>\n"
        \o "    </div>\n"
        \o "</div>\n"
        \o "\n"
        \o "<script>\n"
        \o "// DataFetchState - Encapsulated data fetching state and logic\n"
        \o "class DataFetchState {\n"
        \o "    constructor() {\n"
        \o "        this.items = [];\n"
        \o "        this.loading = false;\n"
        \o "    }\n"
        \o "    \n"
        \o "    // Explicit data sync method called by HTMX\n"
        \o "    sync(jsonData) {\n"
        \o "        try {\n"
        \o "            const data = typeof jsonData === 'string' ? JSON.parse(jsonData) : jsonData;\n"
        \o "            this.items = data.items || data || [];\n"
        \o "            this.loading = false;\n"
        \o "        } catch (e) {\n"
        \o "            console.error('Failed to sync data:', e);\n"
        \o "            this.loading = false;\n"
        \o "        }\n"
        \o "    }\n"
        \o "    \n"
        \o "    // Computed property using getter\n"
        \o "    get itemCount() {\n"
        \o "        return this.items.length;\n"
        \o "    }\n"
        \o "}\n"
        \o "</script>\n"
        \o "{%- endmacro -%}\n"


ProjectNames == {"site", "shop"}

Dir == [kind |-> "dir", text |-> ""]
Data == [kind |-> "data", text |-> ""]
Template(text) == [kind |-> "file", text |-> text]

\* `directories`, with the project directory that mkdir(parents=True) makes
Directories(include_server) ==
    {"", "/templates", "/templates/components", "/templates/layouts",
     "/static", "/static/css", "/static/js"}
    \cup (IF include_server THEN {"/app", "/app/routes"} ELSE {})

\* what _create_example_components writes
ExampleComponents ==
    [p \in {"/templates/components/counter.html", "/templates/components/todo.html",
            "/templates/components/data_fetch.html", "/templates/index.html"} |->
        CASE p = "/templates/components/counter.html" -> Template(counter_content)
          [] p = "/templates/components/todo.html" -> Template(todo_content)
          [] p = "/templates/components/data_fetch.html" -> Template(fetch_content)
          [] OTHER -> Data]

\* what _create_server_files writes
ServerFiles == [p \in {"/app/main.py", "/.env", "/requirements.txt"} |-> Data]

\* every path generate_project creates under project_path, relative to it
Created(include_examples, include_server) ==
    LET dirs == [p \in Directories(include_server) |-> Dir]
        config == [p \in {"/zen-temple.yaml"} |-> Data]
        layout == [p \in {"/templates/layouts/base.html"} |-> Template(layout_content)]
        examples == IF include_examples THEN ExampleComponents ELSE <<>>
        server == IF include_server THEN ServerFiles ELSE <<>>
        readme == [p \in {"/README.md"} |-> Data]
    IN  readme @@ server @@ examples @@ layout @@ config @@ dirs

\* generate_project: mkdir(parents=True, exist_ok=True) keeps what exists,
\* write_text replaces a file
GenerateProject(project_name, include_examples, include_server) ==
    /\ pc = "idle"
    /\ LET created == Created(include_examples, include_server)
           written == [q \in {project_name \o p : p \in DOMAIN created} |->
                          created[CHOOSE p \in DOMAIN created : project_name \o p = q]]
       IN  files' = written @@ files
    /\ UNCHANGED <<lists, results, call, pc, todo, pending, ret, log, procs, calc>>

\* the paths a project can hold, and one that no project holds
ScaffoldPaths ==
    {n \o p : n \in ProjectNames, p \in DOMAIN Created(TRUE, TRUE)}
    \cup {n \o "/templates/components/card.html" : n \in ProjectNames}

KindOf(path) == IF path \in DOMAIN files THEN files[path].kind ELSE "missing"

\* validate_component of a path under project_root: a directory, a template
\* generate_project wrote, or a path at which nothing exists
ValidateGenerated(path) ==
    /\ KindOf(path) # "data"
    /\ ValidateComponent(path, KindOf(path),
                         IF KindOf(path) = "file" THEN files[path].text ELSE "", 1)

NextScaffold ==
    \/ \E n \in ProjectNames, e \in BOOLEAN, s \in BOOLEAN : GenerateProject(n, e, s)
    \/ \E p \in ScaffoldPaths : ValidateGenerated(p)
    \/ Step

SpecScaffold == Init /\ [][NextScaffold]_vars

----------------------------------------------------------------------------
\* CalculatorLogic: a method call at a time on one object, MaxKeys calls at most.

\* the characters given to input_digit, one of them no digit
DigitKeys == {"0", "2", "3", "x"}

\* the strings given to input_operation, one of them no operation
OperationKeys == Operations \cup {"%"}

\* input_digit(digit)
InputDigit(digit) ==
    /\ calc.calls < MaxKeys
    /\ calc' =
          IF ~IsDigit(digit) THEN Called(calc, Raised(MsgInvalidDigit(digit)))
          ELSE LET display == IF calc.new_number \/ calc.display = "0" THEN digit
                              ELSE calc.display \o digit
               IN  Called([calc EXCEPT !.display = display, !.new_number = FALSE],
                          Returned(display))
    /\ UNCHANGED <<lists, results, call, pc, todo, pending, ret, log, procs, files>>

\* input_decimal()
InputDecimal ==
    /\ calc.calls < MaxKeys
    /\ calc' =
          LET display == IF calc.new_number THEN "0."
                         ELSE IF ~Contains(calc.display, ".") THEN calc.display \o "."
                         ELSE calc.display
          IN  Called([calc EXCEPT !.display = display, !.new_number = FALSE],
                     Returned(display))
    /\ UNCHANGED <<lists, results, call, pc, todo, pending, ret, log, procs, files>>

\* input_operation(operation): a pending operation with its second operand
\* entered is calculated first; then float(self._display) is the left operand
InputOperation(operation) ==
    /\ calc.calls < MaxKeys
    /\ IF operation \notin Operations
       THEN calc' = Called(calc, Raised(MsgInvalidOperation(operation)))
       ELSE \E r \in (IF calc.operation # "" /\ ~calc.new_number
                      THEN CalculateResults(calc)
                      ELSE {[state |-> calc, raised |-> ""]}) :
                calc' = IF r.raised # "" THEN Called(r.state, Raised(r.raised))
                        ELSE IF ~Floatable(r.state.display)
                        THEN Called(r.state, Raised(MsgNotFloat(r.state.display)))
                        ELSE Called([r.state EXCEPT
                                        !.previous_value = Parse(r.state.display),
                                        !.operation = operation,
                                        !.new_number = TRUE],
                                    Returned(r.state.display))
    /\ UNCHANGED <<lists, results, call, pc, todo, pending, ret, log, procs, files>>

\* calculate()
Calculate ==
    /\ calc.calls < MaxKeys
    /\ \E r \in CalculateResults(calc) :
          calc' = Called(r.state, IF r.raised # "" THEN Raised(r.raised)
                                  ELSE Returned(r.state.display))
    /\ UNCHANGED <<lists, results, call, pc, todo, pending, ret, log, procs, files>>

\* clear(): everything but the history
Clear ==
    /\ calc.calls < MaxKeys
    /\ calc' = Called([calc EXCEPT !.display = "0", !.current_value = Zero,
                                   !.previous_value = Zero, !.operation = "",
                                   !.new_number = TRUE],
                      Returned("0"))
    /\ UNCHANGED <<lists, results, call, pc, todo, pending, ret, log, procs, files>>

\* clear_entry()
ClearEntry ==
    /\ calc.calls < MaxKeys
    /\ calc' = Called([calc EXCEPT !.display = "0", !.new_number = TRUE], Returned("0"))
    /\ UNCHANGED <<lists, results, call, pc, todo, pending, ret, log, procs, files>>

NextCalc ==
    \/ \E digit \in DigitKeys : InputDigit(digit)
    \/ InputDecimal
    \/ \E operation \in OperationKeys : InputOperation(operation)
    \/ Calculate
    \/ Clear
    \/ ClearEntry

SpecCalc == Init /\ [][NextCalc]_vars

----------------------------------------------------------------------------
\* Properties of one call (Spec).

\* C1: every result validate_string or validate_component returns has errors
\* non-empty exactly when is_valid is false.
C1_ErrorsIffInvalid ==
    pc = "returned" =>
        LET r == View(ret) IN (r.errors # <<>>) <=> (r.is_valid = FALSE)

C1_Witness ==
    /\ pc = "returned"
    /\ call.op = "validate_string"
    /\ Len(View(ret).errors) >= 2
    /\ ~View(ret).is_valid

\* C2: on one result, a step that records an error leaves is_valid false, and
\* no step (a later add_error, an add_warning, any rule) takes is_valid from
\* false back to true.
C2_InvalidStays ==
    [][\A i \in DOMAIN results :
          /\ Len(lists'[results'[i].errors]) > Len(lists[results[i].errors])
                => ~results'[i].is_valid
          /\ ~results[i].is_valid => ~results'[i].is_valid]_vars

\* two errors recorded, then a warning
C2_Witness ==
    /\ pc = "returned"
    /\ Len(View(ret).errors) >= 2
    /\ Len(View(ret).warnings) >= 1
    /\ ~View(ret).is_valid

\* C3: a step that appends a warning leaves is_valid and errors as they were,
\* and a returned result with warnings and no errors has is_valid true.
C3_WarningsNeverInvalidate ==
    /\ [][\A i \in DOMAIN results :
            Len(lists'[results'[i].warnings]) > Len(lists[results[i].warnings])
                => /\ results'[i].is_valid = results[i].is_valid
                   /\ lists'[results'[i].errors] = lists[results[i].errors]]_vars
    /\ [](pc = "returned" =>
            LET r == View(ret) IN
            (r.warnings # <<>> /\ r.errors = <<>>) => r.is_valid)

C3_Witness ==
    /\ pc = "returned"
    /\ Len(View(ret).warnings) >= 2
    /\ View(ret).errors = <<>>
    /\ View(ret).is_valid

\* s extended by one message at its end
ExtendsByOne(s, t) == Len(t) = Len(s) + 1 /\ SubSeq(t, 1, Len(s)) = s

\* C4: every step leaves the errors and the warnings of a result unchanged, or
\* extends exactly one of the two by one message at its end; the result keeps
\* its two list objects.
C4_AppendOnly ==
    [][\A i \in DOMAIN results :
          LET e == lists[results[i].errors]
              w == lists[results[i].warnings]
              e2 == lists'[results'[i].errors]
              w2 == lists'[results'[i].warnings]
          IN  /\ results'[i].errors = results[i].errors
              /\ results'[i].warnings = results[i].warnings
              /\ \/ e2 = e /\ w2 = w
                 \/ ExtendsByOne(e, e2) /\ w2 = w
                 \/ e2 = e /\ ExtendsByOne(w, w2)]_vars

\* two different errors and three warnings were appended
C4_Witness ==
    /\ pc = "returned"
    /\ Len(View(ret).errors) >= 2
    /\ View(ret).errors[1] # View(ret).errors[2]
    /\ Len(View(ret).warnings) >= 3

\* PurePath.stem of each path of the model, written out
StemOfPath ==
    [p \in Paths |->
        CASE p = "card.html" -> "card"
          [] p = "ui/todo.tar.gz" -> "todo.tar"
          [] p = "ui/.hidden" -> ".hidden"
          [] p = "widgets" -> "widgets"]

\* C5: validate_component on a path at which nothing exists does not raise and
\* returns is_valid false, the not-found error alone, no warning, and the
\* path's stem as component_name; no rule has run.
C5_MissingFile ==
    (call.op = "validate_component" /\ call.kind = "missing") =>
        /\ pc # "raised"
        /\ call.ran = <<>>
        /\ pc = "returned" =>
              View(ret) = [ is_valid |-> FALSE,
                            errors |-> <<MsgNotFound(call.path)>>,
                            warnings |-> <<>>,
                            component_name |-> StemOfPath[call.path] ]

C5_Witness ==
    /\ pc = "returned"
    /\ call.op = "validate_component"
    /\ call.kind = "missing"
    /\ call.path = "ui/todo.tar.gz"
    /\ View(ret).component_name = "todo.tar"

\* C6 (as claimed): validate_component never raises on a path that is not an
\* existing file, be it missing or a directory: it returns is_valid false and
\* a single error, and no rule runs.
C6_NeverRaisesOnNonFile ==
    (call.op = "validate_component" /\ call.kind # "file") =>
        /\ pc # "raised"
        /\ call.ran = <<>>
        /\ pc = "returned" => (~View(ret).is_valid /\ Len(View(ret).errors) = 1)

----------------------------------------------------------------------------
\* Properties of a session (SpecSession).

Findings(r) == [is_valid |-> r.is_valid, errors |-> r.errors, warnings |-> r.warnings]

\* C7: two validate_string calls with the same text on one validator return
\* the same errors, the same warnings (content and order) and the same is_valid.
C7_SameTextSameResult ==
    \A i, j \in 1..Len(log) :
        ( /\ log[i].call.op = "validate_string"
          /\ log[j].call.op = "validate_string"
          /\ log[i].call.content = log[j].call.content )
        => Findings(log[i].returned) = Findings(log[j].returned)

C7_Witness ==
    /\ Len(log) = 2
    /\ log[1].call.op = "validate_string"
    /\ log[2].call.op = "validate_string"
    /\ log[1].call.content = SampleAll
    /\ log[2].call.content = SampleAll
    /\ Len(log[2].returned.errors) = 3
    /\ Len(log[2].returned.warnings) = 5

\* the rules ran in this call
RanRules(c) == c.op = "validate_string" \/ c.kind = "file"

\* C8: calls on one validator do not interfere: a call that runs the rules on
\* text B returns what a first call on B returns, whatever preceded it; a
\* returned result stays as it was returned; and a step writes to no result
\* but the one of the call in progress.
C8_CallsDoNotInterfere ==
    /\ [](pc = "returned" /\ RanRules(call) =>
            log[Len(log)].returned = validate_string(call.content, View(ret).component_name))
    /\ [](\A i \in 1..Len(log) : View(log[i].call.result) = log[i].returned)
    /\ [][\A i \in DOMAIN results : i # call'.result => View(i)' = View(i)]_vars

C8_Witness ==
    /\ Len(log) = 2
    /\ pc = "returned"
    /\ log[1].call.content = SampleAll
    /\ log[2].call.op = "validate_component"
    /\ log[2].call.content = SampleGood
    /\ log[2].returned.errors = <<>>
    /\ Len(View(log[1].call.result).errors) = 3

\* C11: on one validator, validate_component on a file holding text T and
\* validate_string on T return the same is_valid, errors and warnings; the
\* component_name is the path's stem in the one and the supplied name in the
\* other.
C11_FileAsString ==
    \A i, j \in 1..Len(log) :
        ( /\ log[i].call.op = "validate_component"
          /\ log[i].call.kind = "file"
          /\ log[j].call.op = "validate_string"
          /\ log[j].call.content = log[i].call.content )
        => /\ Findings(log[i].returned) = Findings(log[j].returned)
           /\ log[i].returned.component_name = StemOfPath[log[i].call.path]
           /\ log[j].returned.component_name = log[j].call.name

\* the file and the string hold the text that makes every rule report
C11_Witness ==
    /\ Len(log) = 2
    /\ log[1].call.op = "validate_component"
    /\ log[1].call.kind = "file"
    /\ log[1].call.path = "card.html"
    /\ log[2].call.op = "validate_string"
    /\ log[2].call.name = "inline"
    /\ log[1].call.content = SampleAll
    /\ log[2].call.content = SampleAll
    /\ Len(log[1].returned.errors) = 3
    /\ Len(log[1].returned.warnings) = 5
    /\ log[1].returned.component_name = "card"

----------------------------------------------------------------------------
\* Properties of the battery in any order (SpecPerm) and as processes (SpecConc).

Range(seq) == {seq[i] : i \in 1..Len(seq)}

\* the multiset of the entries of a sequence
BagOf(seq) == [m \in Range(seq) |-> Cardinality({i \in 1..Len(seq) : seq[i] = m})]

\* C9: the rules run in any order over a fresh result give the multiset of
\* errors, the multiset of warnings and the is_valid of the run in list order.
C9_RulesIndependent ==
    pc = "returned" =>
        LET r == View(ret)
            inorder == validate_string(call.content, r.component_name)
        IN  /\ BagOf(r.errors) = BagOf(inorder.errors)
            /\ BagOf(r.warnings) = BagOf(inorder.warnings)
            /\ r.is_valid = inorder.is_valid

\* the mutation rule, last of the list, ran first, and the inline-script rule last
C9_Witness ==
    /\ pc = "returned"
    /\ call.ran[1] = "check_server_state_mutation"
    /\ call.ran[6] = "check_inline_scripts"
    /\ View(ret).warnings[1] = MsgMutation
    /\ Len(View(ret).errors) = 3
    /\ Len(View(ret).warnings) = 5

\* C10: the six rules as concurrent processes on one shared result, the steps
\* of add_error and add_warning interleaved: when all have finished the result
\* holds the errors and the warnings of the sequential run, as multisets, and
\* is_valid is false exactly when errors is non-empty.
C10_ConcurrentBattery ==
    pc = "returned" =>
        LET r == View(ret)
            sequential == validate_string(call.content, r.component_name)
        IN  /\ BagOf(r.errors) = BagOf(sequential.errors)
            /\ BagOf(r.warnings) = BagOf(sequential.warnings)
            /\ (r.is_valid = FALSE) <=> (r.errors # <<>>)

\* a finished run with two errors whose warnings came in another order than
\* the sequential run's
C10_Witness ==
    /\ pc = "returned"
    /\ Len(View(ret).errors) >= 2
    /\ Len(View(ret).warnings) >= 3
    /\ View(ret).warnings # validate_string(call.content, "inline").warnings

----------------------------------------------------------------------------
\* Properties of the rules, a rule at a time (Spec).  The texts are read here
\* as the claims describe them, without the rules' patterns.

\* how many entries of seq are m
Count(seq, m) == Cardinality({i \in 1..Len(seq) : seq[i] = m})

\* the call in progress has returned after running the rules
RulesReturned == pc = "returned" /\ RanRules(call)

\* the least position p >= from of s that satisfies Q, 0 when there is none
FirstFrom(s, from, Q(_)) ==
    LET found == {p \in from..Len(s) : Q(p)}
    IN  IF found = {} THEN 0 ELSE Min(found)

\* s[i..j] is white space only
Blank(s, i, j) == \A k \in i..j : At(s, k) \in SpaceChars

\* a closing script tag begins at position c of s, a text in lower case: "</",
\* white space, "script", and a ">" somewhere after
ClosesAt(s, c) ==
    /\ StartsAt(s, c, "</")
    /\ \E k \in (c + 2)..Len(s) :
          /\ Blank(s, c + 2, k - 1)
          /\ StartsAt(s, k, "script")
          /\ \E e \in (k + 6)..Len(s) : At(s, e) = ">"

\* the script blocks of the text from position `from` on, left to right: each
\* is an opening tag (to its ">"), the content up to the first closing tag,
\* and that closing tag (to its ">")
RECURSIVE ScriptBlocks(_, _)
ScriptBlocks(content, from) ==
    LET low == Lower(content)
        IsOpen(p) == StartsAt(low, p, "<script")
        o == FirstFrom(content, from, IsOpen)
        IsGt(p) == At(content, p) = ">"
        g == IF o = 0 THEN 0 ELSE FirstFrom(content, o + 7, IsGt)
        IsClose(p) == ClosesAt(low, p)
        c == IF g = 0 THEN 0 ELSE FirstFrom(content, g + 1, IsClose)
        e == IF c = 0 THEN 0 ELSE FirstFrom(content, c + 2, IsGt)
    IN  IF c = 0 THEN <<>>
        ELSE << [ tag |-> SubSeq(content, o, g),
                  inner |-> SubSeq(content, g + 1, c - 1),
                  whole |-> SubSeq(content, o, e) ] >>
             \o ScriptBlocks(content, e + 1)

\* the opening tag has a src attribute
HasSrc(tag) == Contains(Lower(tag), "src=")

\* the text holds one of the sanctioned tokens: x-data, htmx, a class definition
Sanctioned(text) ==
    \/ Contains(text, "x-data")
    \/ Contains(Lower(text), "htmx")
    \/ Contains(text, "class ")

\* the blocks that have no src attribute and no sanctioned token in their content
UnsanctionedBlocks(content) ==
    LET blocks == ScriptBlocks(content, 1)
    IN  {i \in 1..Len(blocks) : ~HasSrc(blocks[i].tag) /\ ~Sanctioned(blocks[i].inner)}

\* C12 (as claimed): the returned errors hold one inline-script error for each
\* script block that has no src attribute and whose content holds none of the
\* sanctioned tokens, and none for any other block; the sample
\* <script>function f(){}</script> gets at least one and is_valid false.
C12_OneErrorPerUnsanctionedBlock ==
    RulesReturned =>
        /\ Count(View(ret).errors, MsgInlineScript)
              = Cardinality(UnsanctionedBlocks(call.content))
        /\ call.content = SampleScript =>
              (Count(View(ret).errors, MsgInlineScript) >= 1 /\ ~View(ret).is_valid)

\* the attribute `name` occurs in the text: its name in any case, white space
\* or none, and the "="
AttrOccurs(content, name) ==
    LET low == Lower(content)
    IN  \E i \in 1..Len(low) :
            /\ StartsAt(low, i, name)
            /\ \E j \in (i + Len(name))..Len(low) :
                  Blank(low, i + Len(name), j - 1) /\ At(low, j) = "="

HandlerNames == {"onclick", "onload", "onchange", "onsubmit"}

\* the handler attributes that occur in the text
HandlersIn(content) == {h \in HandlerNames : AttrOccurs(content, h)}

\* the error that names the pattern of handler h
HandlerError(h) == MsgInlineHandler(h \o "\\s*=")

\* C13: a text whose script blocks each contain a class-definition token and
\* which holds no inline handler attribute returns no error and is_valid true.
C13_ClassBlocksPass ==
    LET blocks == ScriptBlocks(call.content, 1)
    IN  ( /\ RulesReturned
          /\ \A i \in 1..Len(blocks) : Contains(blocks[i].inner, "class ")
          /\ HandlersIn(call.content) = {} )
        => (View(ret).errors = <<>> /\ View(ret).is_valid)

\* two script blocks, a class definition in each and nothing else sanctioned
C13_Witness ==
    /\ RulesReturned
    /\ Len(ScriptBlocks(call.content, 1)) = 2
    /\ \A i \in 1..2 :
          LET b == ScriptBlocks(call.content, 1)[i]
          IN  /\ Contains(b.inner, "class ")
              /\ ~Contains(b.whole, "x-data")
              /\ ~Contains(Lower(b.whole), "htmx")
    /\ View(ret).errors = <<>>
    /\ View(ret).is_valid

\* C14: each handler attribute that occurs in the text has exactly one error
\* naming its pattern, however often it occurs, and one that does not occur
\* has none; a text with k of the four gets k handler errors, and is_valid
\* false when k > 0.
C14_OneErrorPerHandlerType ==
    RulesReturned =>
        LET errors == View(ret).errors
            found == HandlersIn(call.content)
        IN  /\ \A h \in HandlerNames :
                  Count(errors, HandlerError(h)) = IF h \in found THEN 1 ELSE 0
            /\ Len(errors) - Count(errors, MsgInlineScript) = Cardinality(found)
            /\ found # {} => ~View(ret).is_valid

\* onclick occurs twice and is reported once
C14_Witness ==
    /\ RulesReturned
    /\ \E i, j \in 1..Len(call.content) :
          i < j /\ StartsAt(call.content, i, "onclick=") /\ StartsAt(call.content, j, "onclick=")
    /\ View(ret).errors = <<HandlerError("onclick")>>

\* a call of `method` on a member of this begins at position i of the text:
\* "this.", a name, ".", the method, white space or none, "("
MemberCallAt(content, i, method) ==
    /\ StartsAt(content, i, "this.")
    /\ \E n \in 1..(Len(content) - i - 4) :
          /\ \A k \in (i + 5)..(i + 4 + n) : At(content, k) \in WordChars
          /\ StartsAt(content, i + 5 + n, "." \o method)
          /\ \E j \in (i + 6 + n + Len(method))..Len(content) :
                /\ Blank(content, i + 6 + n + Len(method), j - 1)
                /\ At(content, j) = "("

DestructiveMethods == {"push", "splice", "pop"}

\* the destructive calls of the text: where each begins, and its method
DestructiveCalls(content) ==
    {c \in (1..Len(content)) \X DestructiveMethods : MemberCallAt(content, c[1], c[2])}

\* the rule whose calls are being made
Running == IF pc = "rules" /\ call.ran # <<>> THEN call.ran[Len(call.ran)] ELSE "none"

\* C15: the returned warnings hold the destructive-mutation warning once when
\* the text has at least one call of push, splice or pop on a this.<name>
\* member, and not at all when it has none; the mutation rule makes no
\* add_error call.
C15_OneMutationWarning ==
    /\ RulesReturned =>
          Count(View(ret).warnings, MsgMutation)
              = IF DestructiveCalls(call.content) # {} THEN 1 ELSE 0
    /\ Running = "check_server_state_mutation" =>
          \A k \in 1..Len(pending) : pending[k].kind = "warning"

\* two calls with different methods, one warning
C15_Witness ==
    /\ RulesReturned
    /\ \E c, d \in DestructiveCalls(call.content) : c[2] # d[2]
    /\ Count(View(ret).warnings, MsgMutation) = 1

\* the opening quote of the x-data attribute that begins at position p of the
\* text: after the name come white space or none, "=", white space or none,
\* and the quote; 0 when p begins no such attribute
OpenQuote(content, p) ==
    LET IsQuote(q) ==
            /\ At(content, q) \in QuoteChars
            /\ \E e \in (p + 6)..(q - 1) :
                  /\ Blank(content, p + 6, e - 1)
                  /\ At(content, e) = "="
                  /\ Blank(content, e + 1, q - 1)
    IN  IF StartsAt(content, p, "x-data") THEN FirstFrom(content, p + 7, IsQuote) ELSE 0

\* the next quote character after position q, 0 when there is none
CloseQuote(content, q) ==
    LET IsQuote(e) == At(content, e) \in QuoteChars
    IN  IF q = 0 THEN 0 ELSE FirstFrom(content, q + 1, IsQuote)

\* the quoted values of the x-data occurrences of the text from position
\* `from` on, left to right
RECURSIVE XDataValues(_, _)
XDataValues(content, from) ==
    LET IsAttr(p) == CloseQuote(content, OpenQuote(content, p)) # 0
        p == FirstFrom(content, from, IsAttr)
        q == OpenQuote(content, p)
        e == CloseQuote(content, q)
    IN  IF p = 0 THEN <<>>
        ELSE <<SubSeq(content, q + 1, e - 1)>> \o XDataValues(content, e + 1)

\* how many of the values satisfy P
CountValues(values, P(_)) == Cardinality({i \in 1..Len(values) : P(values[i])})

\* C16 (as claimed): the returned warnings hold one inline-object warning for
\* each x-data occurrence whose quoted value starts with an opening brace and
\* does not contain `new `, and none for any other occurrence.
C16_InlineObjectIffBraceFirst ==
    LET BraceFirst(v) == StartsAt(v, 1, "{") /\ ~Contains(v, "new ")
    IN  RulesReturned =>
            Count(View(ret).warnings, MsgInlineObject)
                = CountValues(XDataValues(call.content, 1), BraceFirst)

\* the first character of the value that is not white space is an opening brace
BraceAfterSpace(v) == \E k \in 1..Len(v) : Blank(v, 1, k - 1) /\ At(v, k) = "{"

\* C16 (amended): the returned warnings hold one inline-object warning for each
\* x-data occurrence whose quoted value, white space at its start set aside,
\* starts with an opening brace and does not contain `new `, and none for any
\* other occurrence; x-data="{ count: 0 }" has it, x-data="new C()" has not.
C16_InlineObjectIffBraceAfterSpace ==
    LET Inline(v) == BraceAfterSpace(v) /\ ~Contains(v, "new ")
    IN  RulesReturned =>
            Count(View(ret).warnings, MsgInlineObject)
                = CountValues(XDataValues(call.content, 1), Inline)

\* the value starts with white space and then a brace, and is warned about
C16_Witness ==
    /\ RulesReturned
    /\ XDataValues(call.content, 1) = <<" { count: 0 }">>
    /\ Count(View(ret).warnings, MsgInlineObject) = 1

\* a swap attribute whose quoted value is exactly outerHTML begins at position
\* i of the text
OuterSwapAt(content, i) ==
    /\ StartsAt(content, i, "hx-swap")
    /\ \E e \in (i + 7)..Len(content) :
          /\ Blank(content, i + 7, e - 1)
          /\ At(content, e) = "="
          /\ \E q \in (e + 1)..(Len(content) - 10) :
                /\ Blank(content, e + 1, q - 1)
                /\ At(content, q) \in QuoteChars
                /\ StartsAt(content, q + 1, "outerHTML")
                /\ At(content, q + 10) \in QuoteChars

OuterSwaps(content) == {i \in 1..Len(content) : OuterSwapAt(content, i)}

\* the verb and behaviour attributes of the hypermedia library
HypermediaAttrs ==
    { "hx-get", "hx-post", "hx-put", "hx-delete", "hx-patch",
      "hx-trigger", "hx-target", "hx-swap", "hx-select" }

\* C17: the returned warnings hold the full-swap warning once when the text has
\* a swap attribute of value exactly outerHTML and a hypermedia attribute,
\* however many such swap attributes there are, and not at all otherwise; the
\* hypermedia rule makes no add_error call.
C17_FullSwapWarning ==
    /\ RulesReturned =>
          Count(View(ret).warnings, MsgFullSwap)
              = IF /\ OuterSwaps(call.content) # {}
                   /\ \E a \in HypermediaAttrs : Contains(call.content, a)
                THEN 1 ELSE 0
    /\ Running = "check_htmx_usage" =>
          \A k \in 1..Len(pending) : pending[k].kind = "warning"

\* two swap attributes of value outerHTML, one warning
C17_Witness ==
    /\ RulesReturned
    /\ Cardinality(OuterSwaps(call.content)) = 2
    /\ Count(View(ret).warnings, MsgFullSwap) = 1

\* C18: the returned warnings hold the missing-wrapper warning once when the
\* text has neither `{% macro` nor `{%- macro`, and not at all when it has
\* either of the two.
C18_MissingWrapperWarning ==
    RulesReturned =>
        Count(View(ret).warnings, MsgNoMacro)
            = IF \E marker \in {"{% macro", "{%- macro"} : Contains(call.content, marker)
              THEN 0 ELSE 1

\* the whitespace-trimming marker alone suppresses the warning
C18_Witness ==
    /\ RulesReturned
    /\ Contains(call.content, "{%- macro")
    /\ ~Contains(call.content, "{% macro")
    /\ Count(View(ret).warnings, MsgNoMacro) = 0

\* the reactive directives
Directives == {"x-show", "x-if", "x-for", "x-model", "x-text", "x-html"}

\* the text of the end-to-end scenario: one x-data attribute, its value an
\* inline object without `new `; a directive; no script block, no inline
\* handler, no macro marker
InlineObjectComponent(content) ==
    LET values == XDataValues(content, 1)
    IN  /\ Len(values) = 1
        /\ BraceAfterSpace(values[1])
        /\ ~Contains(values[1], "new ")
        /\ \E d \in Directives : Contains(content, d)
        /\ ScriptBlocks(content, 1) = <<>>
        /\ HandlersIn(content) = {}
        /\ ~Contains(content, "{% macro")
        /\ ~Contains(content, "{%- macro")

\* C19: for such a text validate_string returns is_valid true, no error, the
\* inline-object warning once, the missing-wrapper warning once, and no
\* entry about a missing file.
C19_InlineObjectScenario ==
    ( /\ pc = "returned"
      /\ call.op = "validate_string"
      /\ InlineObjectComponent(call.content) )
    => LET r == View(ret)
       IN  /\ r.is_valid
           /\ r.errors = <<>>
           /\ Count(r.warnings, MsgInlineObject) = 1
           /\ Count(r.warnings, MsgNoMacro) = 1
           /\ \A k \in 1..Len(r.warnings) : ~StartsAt(r.warnings[k], 1, MsgNotFound(""))

\* the scenario's own text
C19_Witness ==
    /\ pc = "returned"
    /\ call.op = "validate_string"
    /\ call.content = SampleGood
    /\ InlineObjectComponent(call.content)
    /\ View(ret).warnings = <<MsgInlineObject, MsgNoMacro>>

----------------------------------------------------------------------------
\* Properties of the command line (SpecCli).

\* C20: when validate ends after validate_component has returned a result, its
\* exit status is non-zero if the result has is_valid false and zero
\* otherwise; a result with warnings and no error gives status zero.
C20_ExitStatus ==
    (pc = "exited" /\ ret # 0) =>
        LET r == View(ret)
        IN  /\ ~r.is_valid => call.exit # 0
            /\ r.is_valid => call.exit = 0
            /\ (r.warnings # <<>> /\ r.errors = <<>>) => call.exit = 0

\* a run that ended with status 0 on a result with two warnings
C20_Witness ==
    /\ pc = "exited"
    /\ ret # 0
    /\ Len(View(ret).warnings) >= 2
    /\ View(ret).errors = <<>>
    /\ call.exit = 0

----------------------------------------------------------------------------
\* Properties of the reactivity and structure rules (Spec).

\* the value reads neither as an object literal nor as a call
Malformed(v) == v # "" /\ \A k \in 1..Len(v) : At(v, k) \notin {"{", "("}

\* the warning is a malformed-state warning, whatever value it quotes
IsMalformedWarning(w) == StartsAt(w, 1, "x-data='") /\ w # MsgInlineObject

\* how many entries of seq satisfy P
CountIf(seq, P(_)) == Cardinality({i \in 1..Len(seq) : P(seq[i])})

\* C21: the returned warnings hold, for each quoted value v of an x-data
\* occurrence, as many malformed-state warnings quoting v as there are
\* occurrences of value v when v is non-empty and has neither "{" nor "(", and
\* none otherwise; in all, one malformed-state warning per such occurrence.
C21_MalformedPerOccurrence ==
    RulesReturned =>
        LET values == XDataValues(call.content, 1)
            warnings == View(ret).warnings
        IN  /\ \A i \in 1..Len(values) :
                  LET Same(v) == v = values[i]
                  IN  Count(warnings, MsgMalformedState(values[i]))
                          = IF Malformed(values[i]) THEN CountIf(values, Same) ELSE 0
            /\ CountIf(warnings, IsMalformedWarning) = CountIf(values, Malformed)

\* two malformed occurrences, two warnings
C21_Witness ==
    /\ RulesReturned
    /\ XDataValues(call.content, 1) = <<"counter", "counter">>
    /\ Count(View(ret).warnings, MsgMalformedState("counter")) = 2

\* C22: the returned warnings hold the no-reactive-directives warning once
\* when the text has none of the six directive tokens and no x-data, and not
\* at all when it has x-data or any one directive.
C22_NoDirectivesWarning ==
    RulesReturned =>
        Count(View(ret).warnings, MsgNoDirectives)
            = IF \E token \in Directives \cup {"x-data"} : Contains(call.content, token)
              THEN 0 ELSE 1

\* x-data alone, without a quoted value and without a directive, suppresses it
C22_Witness ==
    /\ RulesReturned
    /\ Contains(call.content, "x-data")
    /\ XDataValues(call.content, 1) = <<>>
    /\ \A d \in Directives : ~Contains(call.content, d)
    /\ View(ret).warnings = <<MsgNoMacro>>

\* the text uses the template tag `word`, opened with or without the
\* whitespace-trimming dash
UsesTag(content, word) ==
    Contains(content, "{% " \o word) \/ Contains(content, "{%- " \o word)

CompositionTags == {"extends", "include", "block"}

\* the text has an opening and a closing html tag, in any case
FullDocument(content) ==
    Contains(Lower(content), "<html") /\ Contains(Lower(content), "</html>")

\* C23 (as claimed): the returned warnings hold the unwrapped-full-document
\* warning once when the text has both the opening and the closing html tag
\* and uses none of extends, include and block, and not at all when it uses
\* one of the three or lacks one of the two tags.
C23_FullDocumentWarning ==
    RulesReturned =>
        Count(View(ret).warnings, MsgFullDocument)
            = IF /\ FullDocument(call.content)
                 /\ \A word \in CompositionTags : ~UsesTag(call.content, word)
              THEN 1 ELSE 0

\* the rules that only advise
AdvisoryRules ==
    { "check_htmx_usage", "check_alpine_usage", "check_template_structure",
      "check_macro_wrapper", "check_server_state_mutation" }

\* the errors there are: of an inline script, of a handler, of a missing file
KnownErrors ==
    {MsgInlineScript} \cup {HandlerError(h) : h \in HandlerNames}
        \cup {MsgNotFound(p) : p \in Paths}

\* C24: while one of the five rules other than the inline-script-and-handler
\* rule is running, no step changes the errors or the is_valid of a result,
\* and the calls it has yet to make are all add_warning; every error of every
\* result is an inline-script error, an inline-handler error or the
\* missing-file error.
C24_OnlyInlineRuleRecordsErrors ==
    /\ [][(Running \in AdvisoryRules) =>
            (\A i \in DOMAIN results :
                /\ lists'[results'[i].errors] = lists[results[i].errors]
                /\ results'[i].is_valid = results[i].is_valid)]_vars
    /\ [](Running \in AdvisoryRules =>
            \A k \in 1..Len(pending) : pending[k].kind = "warning")
    /\ [](\A i \in DOMAIN results :
            \A k \in 1..Len(lists[results[i].errors]) :
                lists[results[i].errors][k] \in KnownErrors)

\* all six rules ran and each of the five advisory ones warned
C24_Witness ==
    /\ RulesReturned
    /\ Len(call.ran) = 6
    /\ Len(View(ret).errors) = 3
    /\ \A m \in {MsgFullSwap, MsgInlineObject, MsgFullDocument, MsgNoMacro, MsgMutation} :
          Count(View(ret).warnings, m) = 1

----------------------------------------------------------------------------
\* Properties of the order of the battery (Spec).

\* i is the place of a warning m in the sequence, 0 when it is not there
PlaceOf(seq, m) ==
    LET at == {i \in 1..Len(seq) : seq[i] = m} IN IF at = {} THEN 0 ELSE Min(at)

\* m comes before n in the sequence whenever both are there
Before(seq, m, n) ==
    (PlaceOf(seq, m) # 0 /\ PlaceOf(seq, n) # 0) => PlaceOf(seq, m) < PlaceOf(seq, n)

\* C28 (as claimed): the rules run in the order inline-script-and-handler,
\* hypermedia, reactivity, structural-wrapper, server-state-mutation,
\* template-structure; the missing-wrapper warning and the destructive-mutation
\* warning each come before the unwrapped-full-document warning.
C28_StructureRuleLast ==
    RulesReturned =>
        /\ call.ran = << "check_inline_scripts", "check_htmx_usage", "check_alpine_usage",
                         "check_macro_wrapper", "check_server_state_mutation",
                         "check_template_structure" >>
        /\ Before(View(ret).warnings, MsgNoMacro, MsgFullDocument)
        /\ Before(View(ret).warnings, MsgMutation, MsgFullDocument)

\* the rule that adds the warning, by its place in the list of the code
RankOf(w) ==
    CASE w = MsgFullSwap -> 2
      [] w = MsgFullDocument -> 4
      [] w = MsgNoMacro -> 5
      [] w = MsgMutation -> 6
      [] OTHER -> 3

\* C28 (amended): the rules run in the order inline-script-and-handler,
\* hypermedia, reactivity, template-structure, structural-wrapper,
\* server-state-mutation, and the warnings appear in that order: the
\* unwrapped-full-document warning comes before the missing-wrapper warning,
\* and that one before the destructive-mutation warning; the inline-script
\* errors come before the inline-handler errors.
C28_StructureRuleFourth ==
    RulesReturned =>
        LET warnings == View(ret).warnings
            errors == View(ret).errors
        IN  /\ call.ran = << "check_inline_scripts", "check_htmx_usage",
                             "check_alpine_usage", "check_template_structure",
                             "check_macro_wrapper", "check_server_state_mutation" >>
            /\ \A i, j \in 1..Len(warnings) :
                  i < j => RankOf(warnings[i]) <= RankOf(warnings[j])
            /\ Before(warnings, MsgFullDocument, MsgNoMacro)
            /\ Before(warnings, MsgNoMacro, MsgMutation)
            /\ \A i, j \in 1..Len(errors) :
                  (i < j /\ errors[j] = MsgInlineScript) => errors[i] = MsgInlineScript

\* a text that triggers the three warnings, and errors of both kinds
C28_Witness ==
    /\ RulesReturned
    /\ PlaceOf(View(ret).warnings, MsgFullDocument) = 3
    /\ PlaceOf(View(ret).warnings, MsgNoMacro) = 4
    /\ PlaceOf(View(ret).warnings, MsgMutation) = 5
    /\ Len(View(ret).errors) = 3

----------------------------------------------------------------------------
\* The reactivity rule, an occurrence at a time (Spec).

\* the warnings about single occurrences among the returned ones
PerOccurrence(warnings) ==
    CountIf(warnings, IsMalformedWarning) + Count(warnings, MsgInlineObject)

\* C29: an x-data occurrence gets the malformed-state warning or the
\* inline-object warning, never both, so the returned warnings hold at most
\* one such warning per quoted occurrence; and when they hold one, they do not
\* hold the no-reactive-directives warning.
C29_AtMostOnePerOccurrence ==
    RulesReturned =>
        LET values == XDataValues(call.content, 1)
            warnings == View(ret).warnings
        IN  /\ \A i \in 1..Len(values) : Len(XDataWarnings(values[i])) <= 1
            /\ PerOccurrence(warnings) <= Len(values)
            /\ PerOccurrence(warnings) > 0 => Count(warnings, MsgNoDirectives) = 0

\* two occurrences, one warning of each kind
C29_Witness ==
    /\ RulesReturned
    /\ Len(XDataValues(call.content, 1)) = 2
    /\ CountIf(View(ret).warnings, IsMalformedWarning) = 1
    /\ Count(View(ret).warnings, MsgInlineObject) = 1

----------------------------------------------------------------------------
\* Properties of the generated project (SpecScaffold).

\* the example todo component of a project
TodoPath(project_name) == project_name \o "/templates/components/todo.html"

\* C27 (as claimed): the example todo component that generate_project writes
\* holds no `.push(` call, and a validation of it that has returned holds no
\* destructive-mutation warning.
C27_GeneratedTodoHasNoPush ==
    \A n \in ProjectNames :
        /\ TodoPath(n) \in DOMAIN files => ~Contains(files[TodoPath(n)].text, ".push(")
        /\ (RulesReturned /\ call.path = TodoPath(n)) =>
               Count(View(ret).warnings, MsgMutation) = 0

----------------------------------------------------------------------------
\* Properties of the calculator (SpecCalc).

\* the display reads as zero: noughts, with a sign or a point at most
ShowsZero(display) ==
    /\ \E i \in 1..Len(display) : At(display, i) = "0"
    /\ \A i \in 1..Len(display) : At(display, i) \in {"0", ".", "-"}

\* the value of a whole number of few digits, as an integer
RECURSIVE NatOf(_)
NatOf(m) == IF m = <<>> THEN 0 ELSE 10 * NatOf(SubSeq(m, 1, Len(m) - 1)) + m[Len(m)]
IntOf(x) == IF x.neg THEN 0 - NatOf(x.mag) ELSE NatOf(x.mag)
Small(x) == x.exp = 0 /\ Len(x.mag) <= 4

\* the second operand has been entered for a pending operation
SecondOperandEntered == calc.operation # "" /\ ~calc.new_number

\* C25 (as claimed): a call of input_operation with an operation pending and
\* its second operand entered returns the display; the display is the result
\* of the pending operation on the left operand and the number entered (the
\* sum, difference or product itself when both are small whole numbers), the
\* history has the line of that calculation, the left operand is now the
\* number displayed, and the new operation is pending for a new number.
C25_PendingOperationCalculatedFirst ==
    [][\A operation \in Operations :
          (SecondOperandEntered /\ InputOperation(operation)) =>
              LET entered == Parse(calc.display)
                  left == calc.previous_value
              IN  /\ calc'.last = Returned(calc'.display)
                  /\ Floatable(calc'.display)
                  /\ calc'.previous_value = Parse(calc'.display)
                  /\ calc'.history = Append(calc.history,
                         Entry(left, calc.operation, entered, calc'.display))
                  /\ (Small(left) /\ Small(entered) /\ calc.operation # "/") =>
                         /\ Small(calc'.previous_value)
                         /\ IntOf(calc'.previous_value) =
                               CASE calc.operation = "+" -> IntOf(left) + IntOf(entered)
                                 [] calc.operation = "-" -> IntOf(left) - IntOf(entered)
                                 [] calc.operation = "*" -> IntOf(left) * IntOf(entered)
                  /\ calc'.operation = operation
                  /\ calc'.new_number]_vars

\* C26: a call of calculate with a division pending and a display that reads
\* as zero returns "Error": the display is "Error", no operation is pending,
\* the history is what it was, and the next digit starts a new number.
C26_DivisionByZeroShowsError ==
    [][(calc.operation = "/" /\ ShowsZero(calc.display) /\ Calculate) =>
          /\ calc'.last = Returned("Error")
          /\ calc'.display = "Error"
          /\ calc'.operation = ""
          /\ calc'.history = calc.history
          /\ calc'.new_number]_vars

\* a product is in the history, then its division by zero has returned "Error"
C26_Witness ==
    /\ calc.last = Returned("Error")
    /\ calc.display = "Error"
    /\ calc.operation = ""
    /\ calc.new_number
    /\ IsZero(calc.current_value)
    /\ ~IsZero(calc.previous_value)
    /\ Len(calc.history) = 1
    /\ calc.history[1].operation = "*"

\* C30 (as claimed): a call of input_operation returns the display when the
\* operation is one of + - * /, whatever calls came before, and raises when
\* it is not.
C30_InputOperationRaisesOnlyOnInvalid ==
    [][\A operation \in OperationKeys :
          InputOperation(operation) =>
              IF operation \in {"+", "-", "*", "/"}
              THEN calc'.last = Returned(calc'.display)
              ELSE calc'.last = Raised(MsgInvalidOperation(operation))]_vars

============================================================================
